---- MODULE Spec2Model ----
(***************************************************************************)
(* Submission Mapper & Monitor Toolkit                                     *)
(* (src/directories/submission_monitor_toolkit/submission_mapper_monitor.py) *)
(*                                                                         *)
(* The state is the output directory: one map.json per site_id, the        *)
(* master_index.csv table and the events.csv log, plus the position of the *)
(* run in progress.  Text is a sequence of one-character strings, so that  *)
(* sanitising an identifier and reading a CSV cell back are computed and   *)
(* not assumed.                                                            *)
(***************************************************************************)
EXTENDS Integers, Sequences, FiniteSets, TLC

VARIABLES
    store,          \* site_id -> content of out/<site_id>/map.json
    master_index,   \* rows of out/master_index.csv, as written on disk
    events,         \* rows of out/events.csv, as written on disk
    pc,             \* "idle" | "running" | "done" | "aborted" | "rejected"
    mode,           \* "map" | "monitor"
    targets_csv,    \* the targets CSV the run in progress was given
    targets,        \* the list load_targets returned for this run
    limit,          \* --limit: <<n>>, or NoLimit when absent
    processed,      \* the counter of _run
    clock,          \* utc_now_iso(): one tick per capture
    ok_seen,        \* history: site_ids that already had a status=ok capture
    run_log,        \* history: what each _process_single_target of this run did
    io_pc,          \* steps: where each executor of the loop is in its target
    io_job,         \* steps: what each executor holds of its target
    cmp_previous,   \* compare_maps: first argument
    cmp_current,    \* compare_maps: second argument
    cmp_diff,       \* compare_maps: result
    san_raw,        \* sanitize_site_id: the raw identifier
    san_out,        \* sanitize_site_id: the results of applying it again and again
    sig_forms,      \* compute_form_signature: two forms lists
    sig_out,        \* compute_form_signature: their serializations and signatures
    ms_forms,       \* infer_multi_step: the forms list
    ms_html,        \* infer_multi_step: the HTML text
    ms_out,         \* infer_multi_step: result
    dc_page,        \* detect_captcha: what the page answers to each selector probe
    dc_html,        \* detect_captcha: the HTML text
    dc_out,         \* detect_captcha: result
    ts_tree,        \* toSelector: the DOM tree
    ts_el,          \* toSelector: the element
    ts_out          \* toSelector: the results of the calls

vars == <<store, master_index, events, pc, mode, targets_csv, targets, limit,
          processed, clock, ok_seen, run_log, io_pc, io_job, cmp_previous, cmp_current, cmp_diff,
          san_raw, san_out, sig_forms, sig_out, ms_forms, ms_html, ms_out,
          dc_page, dc_html, dc_out, ts_tree, ts_el, ts_out>>

io_vars == <<io_pc, io_job>>

run_vars == <<store, master_index, events, pc, mode, targets_csv, targets, limit,
              processed, clock, ok_seen, run_log, io_vars>>

cmp_vars == <<cmp_previous, cmp_current, cmp_diff>>

san_vars == <<san_raw, san_out>>

sig_vars == <<sig_forms, sig_out>>

ms_vars == <<ms_forms, ms_html, ms_out>>

dc_vars == <<dc_page, dc_html, dc_out>>

ts_vars == <<ts_tree, ts_el, ts_out>>

(* The variables of the functions that are checked on their own *)
pure_vars == <<cmp_vars, san_vars, sig_vars, ms_vars, dc_vars, ts_vars>>

----------------------------------------------------------------------------
(* Bounds *)

MaxTargets == 2     \* longest target list of a run
MaxCaptures == 2    \* captures over all runs
MaxLogCaptures == 3  \* captures over all runs when one site is watched
MaxIdLen == 5       \* longest raw identifier given to sanitize_site_id
MaxSubmitters == 2  \* most submit candidates of a form given to infer_multi_step
MaxNodes == 4       \* most elements of a DOM tree given to toSelector
MaxMatches == 2     \* most elements a selector probe of detect_captcha counts

(* Python's None for optional strings, and the absent --limit *)
None == "None"
NoLimit == <<>>

----------------------------------------------------------------------------
(* Text helpers *)

Range(seq) == {seq[i] : i \in 1..Len(seq)}

LowerChars == <<"a", "b", "c", "d", "e", "f", "g", "h", "i", "j", "k", "l", "m", "n",
               "o", "p", "q", "r", "s", "t", "u", "v", "w", "x", "y", "z">>
UpperChars == <<"A", "B", "C", "D", "E", "F", "G", "H", "I", "J", "K", "L", "M", "N",
               "O", "P", "Q", "R", "S", "T", "U", "V", "W", "X", "Y", "Z">>
DigitChars == <<"0", "1", "2", "3", "4", "5", "6", "7", "8", "9">>
LowerLetters == Range(LowerChars)
UpperLetters == Range(UpperChars)
Digits == Range(DigitChars)

(* str.lower() on one character, and on a text *)
lower(ch) ==
    IF ch \in UpperLetters
    THEN LowerChars[CHOOSE i \in 1..Len(UpperChars) : UpperChars[i] = ch]
    ELSE ch

lower_text(s) == [i \in 1..Len(s) |-> lower(s[i])]

(* `term in text` on str *)
Contains(text, term) ==
    \E i \in 0..(Len(text) - Len(term)) : SubSeq(text, i + 1, i + Len(term)) = term

(* The characters of the model's texts in code point order, and the order
   Python compares str by *)
CharOrder ==
    <<" ", "!", "\"", "#", "&", ",", "-", ".", "/">> \o DigitChars
    \o <<":", "<", "=", ">">> \o UpperChars \o <<"[", "]", "_">> \o LowerChars
    \o <<"{", "}">>

Ord(ch) == CHOOSE i \in 1..Len(CharOrder) : CharOrder[i] = ch

RECURSIVE LessText(_, _)
LessText(a, b) ==
    IF a = <<>> THEN b # <<>>
    ELSE IF b = <<>> THEN FALSE
    ELSE IF Head(a) = Head(b) THEN LessText(Tail(a), Tail(b))
    ELSE Ord(Head(a)) < Ord(Head(b))

(* sorted(set(texts)) *)
RECURSIVE SortTexts(_)
SortTexts(texts) ==
    IF texts = {} THEN <<>>
    ELSE LET first == CHOOSE t \in texts : \A u \in texts \ {t} : LessText(t, u)
         IN  <<first>> \o SortTexts(texts \ {first})

(* "".join(parts) and separator.join(parts) *)
RECURSIVE Flatten(_)
Flatten(parts) == IF parts = <<>> THEN <<>> ELSE Head(parts) \o Flatten(Tail(parts))

RECURSIVE Join(_, _)
Join(separator, parts) ==
    IF parts = <<>> THEN <<>>
    ELSE IF Len(parts) = 1 THEN parts[1]
    ELSE parts[1] \o separator \o Join(separator, Tail(parts))

(* A text as one string, by halves *)
RECURSIVE AsString(_)
AsString(text) ==
    IF text = <<>> THEN ""
    ELSE IF Len(text) = 1 THEN text[1]
    ELSE LET half == Len(text) \div 2
         IN  AsString(SubSeq(text, 1, half)) \o AsString(SubSeq(text, half + 1, Len(text)))

isalnum(ch) == ch \in LowerLetters \cup UpperLetters \cup Digits

RECURSIVE lstrip(_)
lstrip(s) ==
    IF s # <<>> /\ Head(s) \in {"-", "_"} THEN lstrip(Tail(s)) ELSE s

RECURSIVE rstrip(_)
rstrip(s) ==
    IF s # <<>> /\ s[Len(s)] \in {"-", "_"}
    THEN rstrip(SubSeq(s, 1, Len(s) - 1))
    ELSE s

strip(s) == rstrip(lstrip(s))

HasDoubleDash(s) == \E i \in 1..(Len(s) - 1) : s[i] = "-" /\ s[i + 1] = "-"

(* str.replace("--", "-"): one left-to-right pass over non-overlapping matches *)
RECURSIVE replace_dd(_)
replace_dd(s) ==
    IF Len(s) < 2 THEN s
    ELSE IF s[1] = "-" /\ s[2] = "-"
         THEN <<"-">> \o replace_dd(Tail(Tail(s)))
         ELSE <<s[1]>> \o replace_dd(Tail(s))

(* Variant: `if "--" in value` instead of `while`, one replace pass *)
collapse_once(s) == replace_dd(s)

RECURSIVE collapse(_)
collapse(s) == IF HasDoubleDash(s) THEN collapse(replace_dd(s)) ELSE s

sanitize_site_id(raw_value) ==
    LET mapped == [i \in 1..Len(raw_value) |->
                      IF isalnum(lower(raw_value[i])) \/ lower(raw_value[i]) \in {"-", "_"}
                      THEN lower(raw_value[i])
                      ELSE "-"]
        value == collapse(strip(mapped))
    IN  IF value = <<>> THEN <<"s", "i", "t", "e">> ELSE value

----------------------------------------------------------------------------
(* pandas.read_csv / DataFrame.to_csv on the site_id column *)

IsDigitText(s) == s # <<>> /\ \A i \in 1..Len(s) : s[i] \in Digits

DigitVal(ch) == CHOOSE d \in 0..9 : DigitChars[d + 1] = ch

RECURSIVE ParseInt(_)
ParseInt(s) ==
    IF s = <<>> THEN 0
    ELSE ParseInt(SubSeq(s, 1, Len(s) - 1)) * 10 + DigitVal(s[Len(s)])

RECURSIVE IntToText(_)
IntToText(n) ==
    IF n < 10 THEN <<DigitChars[n + 1]>>
    ELSE IntToText(n \div 10) \o <<DigitChars[(n % 10) + 1]>>

(* A cell of a DataFrame column: an int64 or a Python str *)
IntCell(n) == [t |-> "int", n |-> n, s |-> <<>>]
StrCell(s) == [t |-> "str", n |-> 0, s |-> s]

(* read_csv infers int64 for a column whose every cell is a decimal number,
   and keeps the texts otherwise *)
InferColumn(texts) ==
    IF texts # <<>> /\ \A i \in 1..Len(texts) : IsDigitText(texts[i])
    THEN [i \in 1..Len(texts) |-> IntCell(ParseInt(texts[i]))]
    ELSE [i \in 1..Len(texts) |-> StrCell(texts[i])]

(* str(cell), and the text to_csv writes for the cell *)
CellText(cell) == IF cell.t = "int" THEN IntToText(cell.n) ELSE cell.s

(* Series == scalar, elementwise: an int64 never equals a str *)
CellEq(a, b) == a.t = b.t /\ a.n = b.n /\ a.s = b.s

----------------------------------------------------------------------------
(* JSON values as Python holds them: None, bool, int, str, list, and dict as
   its (key, value) items in insertion order *)

JNull == [t |-> "null", s |-> <<"n", "u", "l", "l">>, items |-> <<>>]
JBool(b) == [t |-> "bool", s |-> IF b THEN <<"t", "r", "u", "e">> ELSE <<"f", "a", "l", "s", "e">>, items |-> <<>>]
JNum(n) == [t |-> "num", s |-> IntToText(n), items |-> <<>>]
JStr(s) == [t |-> "str", s |-> s, items |-> <<>>]
JArr(items) == [t |-> "arr", s |-> <<>>, items |-> items]
JObj(items) == [t |-> "obj", s |-> <<>>, items |-> items]
Item(k, v) == [k |-> k, v |-> v]

Keys(obj) == {obj.items[i].k : i \in 1..Len(obj.items)}

(* dict.get(key, default) *)
Get(obj, key, default) ==
    IF key \in Keys(obj)
    THEN (CHOOSE item \in Range(obj.items) : item.k = key).v
    ELSE default

(* bool(value) of a JSON value *)
JTruthy(value) ==
    CASE value.t = "null" -> FALSE
      [] value.t = "bool" -> value.s = <<"t", "r", "u", "e">>
      [] value.t = "num" -> value.s # <<"0">>
      [] value.t = "str" -> value.s # <<>>
      [] OTHER -> value.items # <<>>

(* sorted(dct.items()): the items by key, in the order of str *)
sorted_items(items) ==
    LET keys == SortTexts({items[i].k : i \in 1..Len(items)})
    IN  [j \in 1..Len(keys) |-> CHOOSE item \in Range(items) : item.k = keys[j]]

(* Variant: sort_keys is not passed, the items are written in insertion order *)
RECURSIVE json_dumps_insertion_order(_)
json_dumps_insertion_order(value) ==
    CASE value.t = "str" -> <<"\"">> \o value.s \o <<"\"">>
      [] value.t = "arr" ->
            <<"[">>
            \o Join(<<",", " ">>, [i \in 1..Len(value.items) |->
                                json_dumps_insertion_order(value.items[i])])
            \o <<"]">>
      [] value.t = "obj" ->
            <<"{">>
            \o Join(<<",", " ">>, [i \in 1..Len(value.items) |->
                                <<"\"">> \o value.items[i].k \o <<"\"">> \o <<":", " ">>
                                \o json_dumps_insertion_order(value.items[i].v)])
            \o <<"}">>
      [] OTHER -> value.s

(* json.dumps(value, sort_keys=True, ensure_ascii=False), on texts that need
   no escape *)
RECURSIVE json_dumps(_)
json_dumps(value) ==
    CASE value.t = "str" -> <<"\"">> \o value.s \o <<"\"">>
      [] value.t = "arr" ->
            <<"[">>
            \o Join(<<",", " ">>, [i \in 1..Len(value.items) |-> json_dumps(value.items[i])])
            \o <<"]">>
      [] value.t = "obj" ->
            LET items == sorted_items(value.items)
            IN  <<"{">>
                \o Join(<<",", " ">>, [i \in 1..Len(items) |->
                                    <<"\"">> \o items[i].k \o <<"\"">> \o <<":", " ">>
                                    \o json_dumps(items[i].v)])
                \o <<"}">>
      [] OTHER -> value.s

----------------------------------------------------------------------------
(* Fingerprints *)

(* hashlib.sha256(...).hexdigest(): distinct texts, distinct digests *)
sha256_text(payload) == "sha256:" \o AsString(payload)

compute_form_signature(forms) == sha256_text(json_dumps(forms))

----------------------------------------------------------------------------
(* Targets *)

(* Rows of the targets CSV the runs are given *)
TargetRows ==
    { [site_id |-> <<"a">>,      homepage |-> "https://a.test", submission_url |-> ""],
      [site_id |-> <<"7">>,      homepage |-> "https://7.test", submission_url |-> ""],
      [site_id |-> <<"0", "7">>, homepage |-> "https://7.test", submission_url |-> ""],
      [site_id |-> <<"a">>,      homepage |-> "",               submission_url |-> ""],
      [site_id |-> <<>>,         homepage |-> "https://a.test", submission_url |-> ""] }

(* Python truthiness of an optional string, and `x or default` *)
Falsy(x) == x = None \/ x = ""
Or(x, default) == IF Falsy(x) THEN default ELSE x

(* Variant: the homepage is preferred to the submission URL *)
target_url_homepage_first(target) ==
    LET url == Or(target.homepage, target.submission_url)
    IN  IF Falsy(url) THEN None ELSE url

(* Target.target_url *)
target_url(target) ==
    LET url == Or(target.submission_url, target.homepage)
    IN  IF Falsy(url) THEN None ELSE url

(* The columns load_targets requires, and a targets CSV: header and rows *)
required == {"site_id", "homepage", "submission_url", "notes"}
TargetsCsv(columns, rows) == [columns |-> columns, rows |-> rows]
NoCsv == TargetsCsv({}, <<>>)

(* Variant: a row without site_id is skipped instead of raising ValueError *)
load_targets_skips_rows(file) ==
    LET kept == SelectSeq(file.rows, LAMBDA row : row.site_id # <<>>)
        column == InferColumn([i \in 1..Len(kept) |-> kept[i].site_id])
        raw_id(i) == CellText(column[i])
    IN  IF required \ file.columns # {}
        THEN [ok |-> FALSE, targets |-> <<>>]
        ELSE [ok |-> TRUE,
              targets |-> [i \in 1..Len(kept) |->
                  [site_id |-> sanitize_site_id(raw_id(i)),
                   homepage |-> kept[i].homepage,
                   submission_url |-> IF kept[i].submission_url = "" THEN None
                                      ELSE kept[i].submission_url,
                   raw_site_id |-> raw_id(i)]]]

(* load_targets: [ok |-> FALSE] stands for the ValueError of a missing column
   or of an empty site_id *)
load_targets(file) ==
    LET rows == file.rows
        column == InferColumn([i \in 1..Len(rows) |-> rows[i].site_id])
        raw_id(i) == CellText(column[i])
    IN  IF required \ file.columns # {}
        THEN [ok |-> FALSE, targets |-> <<>>]
        ELSE IF \E i \in 1..Len(rows) : raw_id(i) = <<>>
        THEN [ok |-> FALSE, targets |-> <<>>]
        ELSE [ok |-> TRUE,
              targets |-> [i \in 1..Len(rows) |->
                  [site_id |-> sanitize_site_id(raw_id(i)),
                   homepage |-> rows[i].homepage,
                   submission_url |-> IF rows[i].submission_url = "" THEN None
                                      ELSE rows[i].submission_url,
                   raw_site_id |-> raw_id(i)]]]

(* The row of the directory "Acme Co!" *)
AcmeRow ==
    [site_id |-> <<"A", "c", "m", "e", " ", "C", "o", "!">>, homepage |-> "https://acme.test", submission_url |-> ""]

(* Every site_id a run can be given *)
SiteIds == {sanitize_site_id(r.site_id) : r \in {q \in TargetRows : q.site_id # <<>>}}
           \cup {sanitize_site_id(IntToText(ParseInt(r.site_id))) :
                    r \in {q \in TargetRows : IsDigitText(q.site_id)}}
           \cup {sanitize_site_id(AcmeRow.site_id)}

----------------------------------------------------------------------------
(* Multi-step hints *)

(* str(value) inside an f-string *)
str(value) ==
    CASE value.t = "bool" -> IF value.s = <<"t", "r", "u", "e">> THEN <<"T", "r", "u", "e">> ELSE <<"F", "a", "l", "s", "e">>
      [] value.t = "null" -> <<"N", "o", "n", "e">>
      [] OTHER -> value.s

(* The terms a submit text is searched for *)
terms == {<<"n", "e", "x", "t">>, <<"c", "o", "n", "t", "i", "n", "u", "e">>, <<"s", "t", "e", "p">>, <<"p", "r", "o", "c", "e", "e", "d">>, <<"s", "a", "v", "e", " ", "&", " ", "n", "e", "x", "t">>}

(* infer_multi_step up to `len(forms) > 1`: the signals in the order they are
   appended *)
collect_signals(forms, dom_html) ==
    LET html_lower == lower_text(dom_html)
        dom_signals ==
               (IF Contains(html_lower, <<"d", "a", "t", "a", "-", "s", "t", "e", "p">>)
                THEN <<<<"d", "o", "m", ":", "d", "a", "t", "a", "-", "s", "t", "e", "p">>>> ELSE <<>>)
            \o (IF Contains(html_lower, <<"f", "o", "r", "m", "-", "s", "t", "e", "p">>)
                THEN <<<<"d", "o", "m", ":", "f", "o", "r", "m", "-", "s", "t", "e", "p">>>> ELSE <<>>)
            \o (IF Contains(html_lower, <<"w", "i", "z", "a", "r", "d">>)
                THEN <<<<"d", "o", "m", ":", "w", "i", "z", "a", "r", "d", "-", "k", "e", "y", "w", "o", "r", "d">>>> ELSE <<>>)
            \o (IF Contains(html_lower, <<"p", "r", "o", "g", "r", "e", "s", "s", "b", "a", "r">>)
                THEN <<<<"d", "o", "m", ":", "p", "r", "o", "g", "r", "e", "s", "s", "b", "a", "r">>>> ELSE <<>>)
        dataset_signals(form) ==
            LET got == Get(form, <<"d", "a", "t", "a", "s", "e", "t">>, JNull)
                dataset == IF JTruthy(got) THEN got ELSE JObj(<<>>)
                joined(item) == IF item.v.t # "null"
                                THEN item.k \o <<"=">> \o str(item.v)
                                ELSE item.k
                hit(item) ==
                    \/ Contains(lower_text(item.k), <<"s", "t", "e", "p">>)
                    \/ item.v.t = "str" /\ Contains(lower_text(item.v.s), <<"s", "t", "e", "p">>)
                hits == SelectSeq(dataset.items, hit)
            IN  [i \in 1..Len(hits) |-> <<"f", "o", "r", "m", "-", "d", "a", "t", "a", "s", "e", "t", ":">> \o joined(hits[i])]
        submit_signals(form) ==
            LET submitters == Get(form, <<"s", "u", "b", "m", "i", "t", "t", "e", "r", "s">>, JArr(<<>>)).items
                text(submit) ==
                    LET got == Get(submit, <<"t", "e", "x", "t">>, JNull)
                    IN  lower_text(IF JTruthy(got) THEN got.s ELSE <<>>)
                hit(submit) ==
                    /\ \E term \in terms : Contains(text(submit), term)
                    /\ text(submit) # <<>>
                hits == SelectSeq(submitters, hit)
            IN  [i \in 1..Len(hits) |-> <<"s", "u", "b", "m", "i", "t", "-", "t", "e", "x", "t", ":">> \o text(hits[i])]
    IN  dom_signals
        \o Flatten([i \in 1..Len(forms.items) |->
                       dataset_signals(forms.items[i]) \o submit_signals(forms.items[i])])
        \o (IF Len(forms.items) > 1 THEN <<<<"m", "u", "l", "t", "i", "p", "l", "e", "-", "f", "o", "r", "m", "s", "-", "o", "n", "-", "p", "a", "g", "e">>>> ELSE <<>>)

(* Variant: the signals are returned as collected, without sorted(set(...)) *)
infer_multi_step_as_collected(forms, dom_html) ==
    LET signals == collect_signals(forms, dom_html)
    IN  [likely |-> signals # <<>>, signals |-> signals]

(* Variant: duplicates are dropped but the signals keep the order in which
   they were first appended *)
infer_multi_step_first_seen(forms, dom_html) ==
    LET signals == collect_signals(forms, dom_html)
        first(i) == \A j \in 1..(i - 1) : signals[j] # signals[i]
        kept[i \in 0..Len(signals)] ==
            IF i = 0 THEN <<>>
            ELSE IF first(i) THEN Append(kept[i - 1], signals[i]) ELSE kept[i - 1]
    IN  [likely |-> signals # <<>>, signals |-> kept[Len(signals)]]

infer_multi_step(forms, dom_html) ==
    LET unique_signals == SortTexts(Range(collect_signals(forms, dom_html)))
    IN  [likely |-> unique_signals # <<>>, signals |-> unique_signals]

----------------------------------------------------------------------------
(* Captcha detection *)

keywords == {<<"c", "a", "p", "t", "c", "h", "a">>, <<"r", "e", "c", "a", "p", "t", "c", "h", "a">>, <<"h", "c", "a", "p", "t", "c", "h", "a">>, <<"a", "r", "k", "o", "s", "e">>}

selectors ==
    <<"iframe[src*='recaptcha']", ".g-recaptcha", ".grecaptcha-badge",
      "iframe[src*='hcaptcha']", ".h-captcha", "div[id*='captcha']",
      "iframe[src*='arkoselabs']">>

(* playwright.sync_api.Error and its subclass TimeoutError *)
PlaywrightErrors == {"PlaywrightError", "PlaywrightTimeoutError"}

(* detect_captcha.  page[i] is what page.locator(selectors[i]).count() does:
   it returns a count or raises; the loop stops at the first selector that
   raises or counts an element.  value is the bool returned, raised the
   exception that leaves the function. *)
detect_captcha(page, dom_html) ==
    LET dom_lower == lower_text(dom_html)
        stops == {i \in 1..Len(selectors) : page[i].raised # "none" \/ page[i].count > 0}
        first == CHOOSE i \in stops : \A j \in stops : i <= j
    IN  IF \E keyword \in keywords : Contains(dom_lower, keyword)
        THEN [value |-> TRUE, raised |-> "none"]
        ELSE IF stops = {}
        THEN [value |-> FALSE, raised |-> "none"]
        ELSE IF page[first].raised = "none"
        THEN [value |-> TRUE, raised |-> "none"]
        ELSE IF page[first].raised \in PlaywrightErrors
        THEN [value |-> FALSE, raised |-> "none"]
        ELSE [value |-> FALSE, raised |-> page[first].raised]

----------------------------------------------------------------------------
(* What FORM_EXTRACTION_SCRIPT returns: a list of forms, each with its fields
   and submit candidates, the keys in the order the script writes them *)

(* A DOM tree is the sequence of its elements in document order; an element
   has its nodeName, its id ("" when it has none), its classList and the
   position of its parentElement (0: none, the root element) *)
Element(nodeName, id, classList, parent) ==
    [nodeName |-> nodeName, id |-> id, classList |-> classList, parent |-> parent]

(* The elements from the root down to el: the loop over parentElement *)
RECURSIVE chain(_, _)
chain(tree, el) == IF el = 0 THEN <<>> ELSE Append(chain(tree, tree[el].parent), el)

(* Array.from(parent.children).filter(child => child.nodeName === current.nodeName) *)
siblings(tree, current) ==
    LET same(n) == /\ tree[n].parent = tree[current].parent
                   /\ tree[n].nodeName = tree[current].nodeName
    IN  SelectSeq([n \in 1..Len(tree) |-> n], same)

(* siblings.indexOf(current) + 1 *)
indexOf(seq, x) == CHOOSE i \in 1..Len(seq) : seq[i] = x

(* Variant: `siblings.length > 1` is not tested, every ancestor with a parent
   gets its position *)
part_always_indexed(tree, current, el) ==
    LET node == tree[current]
        classes == IF node.classList # <<>>
                   THEN <<".">> \o Join(<<".">>, node.classList) ELSE <<>>
        nth == IF current # el /\ node.parent # 0
               THEN <<":", "n", "t", "h", "-", "o", "f", "-", "t", "y", "p", "e", "(">> \o IntToText(indexOf(siblings(tree, current), current))
                    \o <<")">>
               ELSE <<>>
    IN  lower_text(node.nodeName) \o classes \o nth

(* The part of one element of the chain *)
part(tree, current, el) ==
    LET node == tree[current]
        classes == IF node.classList # <<>>
                   THEN <<".">> \o Join(<<".">>, node.classList) ELSE <<>>
        nth == IF current # el /\ node.parent # 0 /\ Len(siblings(tree, current)) > 1
               THEN <<":", "n", "t", "h", "-", "o", "f", "-", "t", "y", "p", "e", "(">> \o IntToText(indexOf(siblings(tree, current), current))
                    \o <<")">>
               ELSE <<>>
    IN  lower_text(node.nodeName) \o classes \o nth

(* toSelector of FORM_EXTRACTION_SCRIPT; el = 0 is null *)
toSelector(tree, el) ==
    IF el = 0 THEN JNull
    ELSE IF tree[el].id # <<>>
    THEN JStr(lower_text(tree[el].nodeName) \o <<"#">> \o tree[el].id)
    ELSE LET up == chain(tree, el)
         IN  JStr(Join(<<" ", ">", " ">>, [k \in 1..Len(up) |-> part(tree, up[k], el)]))

Field(name, type, is_required) ==
    JObj(<<Item(<<"n", "a", "m", "e">>, JStr(name)),
           Item(<<"t", "y", "p", "e">>, JStr(type)),
           Item(<<"r", "e", "q", "u", "i", "r", "e", "d">>, JBool(is_required))>>)

Submitter(selector, text, type) ==
    JObj(<<Item(<<"s", "e", "l", "e", "c", "t", "o", "r">>, JStr(selector)),
           Item(<<"t", "e", "x", "t">>, JStr(text)),
           Item(<<"t", "y", "p", "e">>, JStr(type))>>)

Form(index, action, dataset, fields, submitters) ==
    JObj(<<Item(<<"i", "n", "d", "e", "x">>, JNum(index)),
           Item(<<"a", "c", "t", "i", "o", "n">>, action),
           Item(<<"m", "e", "t", "h", "o", "d">>, JStr(<<"p", "o", "s", "t">>)),
           Item(<<"d", "a", "t", "a", "s", "e", "t">>, JObj(dataset)),
           Item(<<"f", "i", "e", "l", "d", "s">>, JArr(fields)),
           Item(<<"s", "u", "b", "m", "i", "t", "t", "e", "r", "s">>, JArr(submitters))>>)

EmailField == Field(<<"e", "m", "a", "i", "l">>, <<"e", "m", "a", "i", "l">>, TRUE)
UrlField == Field(<<"u", "r", "l">>, <<"t", "e", "x", "t">>, FALSE)
SubmitButton == Submitter(<<"b", "u", "t", "t", "o", "n", "#", "g", "o">>, <<"S", "u", "b", "m", "i", "t">>, <<"s", "u", "b", "m", "i", "t">>)
SaveButton == Submitter(<<"f", "o", "r", "m", " ", ">", " ", "b", "u", "t", "t", "o", "n">>, <<"S", "a", "v", "e">>, <<"b", "u", "t", "t", "o", "n">>)

ListingForm == Form(0, JStr(<<"/", "a", "d", "d">>), <<>>, <<EmailField, UrlField>>, <<SubmitButton>>)
SearchForm == Form(1, JNull, <<>>, <<UrlField>>, <<SaveButton>>)

Forms1 == JArr(<<ListingForm>>)
Forms2 == JArr(<<ListingForm, SearchForm>>)

(* What page.content() returns *)
Html1 == <<"<", "f", "o", "r", "m", ">", "<", "/", "f", "o", "r", "m", ">">>
Html2 == <<"<", "f", "o", "r", "m", ">", "<", "d", "i", "v", " ", "c", "l", "a", "s", "s", "=", "g", "-", "r", "e", "c", "a", "p", "t", "c", "h", "a", ">", "<", "/", "d", "i", "v", ">", "<", "/", "f", "o", "r", "m", ">">>
Html3 == <<"<", "f", "o", "r", "m", ">", "<", "/", "f", "o", "r", "m", ">", "<", "f", "o", "r", "m", ">", "<", "/", "f", "o", "r", "m", ">">>
Html4 == <<"<", "f", "o", "r", "m", " ", "c", "l", "a", "s", "s", "=", "\"", "W", "i", "z", "a", "r", "d", "\"", ">", "<", "/", "f", "o", "r", "m", ">">>

----------------------------------------------------------------------------
(* What the browser shows when a target is visited *)

RenderedPages ==
    { [resolved_url |-> "https://a.test/", html |-> Html1, forms |-> Forms1,
       has_captcha |-> FALSE],
      [resolved_url |-> "https://a.test/", html |-> Html2, forms |-> Forms1,
       has_captcha |-> TRUE],
      [resolved_url |-> "https://a.test/new", html |-> Html3, forms |-> Forms2,
       has_captcha |-> FALSE] }

(* What the try block of _capture_target computes from a page before
   payload.update: page.url, sha256_text(html), compute_form_signature(forms),
   len(forms), detect_captcha, infer_multi_step *)
extracted(page) ==
    [resolved_url |-> page.resolved_url,
     dom_checksum |-> sha256_text(page.html),
     form_signature |-> compute_form_signature(page.forms),
     form_count |-> Len(page.forms.items),
     has_captcha |-> page.has_captcha,
     likely |-> infer_multi_step(page.forms, page.html).likely]

NoPage ==
    extracted([resolved_url |-> None, html |-> <<>>, forms |-> JArr(<<>>),
               has_captcha |-> FALSE])

(* Outcomes of the try block of _capture_target.  result is "ok" or the except
   clause taken; navigated tells whether page.goto had returned, so that
   payload["resolved_url"] was already set when the exception was raised; shot
   is what page.screenshot did ("none": it was not reached):
   page.goto times out, page.content or page.evaluate fails in the driver,
   or writing map.html fails. *)
Outcomes ==
    { [result |-> "ok", navigated |-> TRUE, shot |-> "ok", page |-> extracted(p)] : p \in RenderedPages }
    \cup { [result |-> "timeout", navigated |-> FALSE, shot |-> "none", page |-> NoPage] }
    \cup { [result |-> r, navigated |-> TRUE, shot |-> "none",
            page |-> [NoPage EXCEPT !.resolved_url = "https://a.test/"]] :
              r \in {"playwright", "unexpected"} }

(* The try block on a page where every step but page.screenshot succeeds and
   page.screenshot does `shot`: the inner `except PlaywrightError` logs a
   warning and the block goes on; any other exception leaves the inner try and
   is taken by `except Exception` of the outer one *)
with_screenshot(page, shot) ==
    IF shot \in {"ok"} \cup PlaywrightErrors
    THEN [result |-> "ok", navigated |-> TRUE, shot |-> shot, page |-> extracted(page)]
    ELSE [result |-> "unexpected", navigated |-> TRUE, shot |-> shot,
          page |-> [NoPage EXCEPT !.resolved_url = page.resolved_url]]

ErrorMessage(result) ==
    CASE result = "missing" -> "Missing submission_url and homepage; nothing to capture."
      [] result = "timeout" -> "Navigation timeout"
      [] result = "playwright" -> "Playwright error"
      [] result = "unexpected" -> "Unexpected error"

(* The payload as _capture_target initialises it *)
initial_payload(target, run_mode, timestamp) ==
    [site_id |-> target.site_id,
     target_url |-> target_url(target),
     resolved_url |-> None,
     captured_at |-> timestamp,
     mode |-> run_mode,
     status |-> "error",
     error |-> None,
     dom_checksum |-> None,
     form_signature |-> None,
     form_count |-> 0,
     has_captcha |-> FALSE,
     likely_multi_step |-> FALSE]

(* The try block ran to its end: payload.update({...}) *)
capture_ok(payload, page) ==
    [payload EXCEPT !.resolved_url = page.resolved_url,
                    !.status = "ok",
                    !.error = None,
                    !.dom_checksum = page.dom_checksum,
                    !.form_signature = page.form_signature,
                    !.form_count = page.form_count,
                    !.has_captcha = page.has_captcha,
                    !.likely_multi_step = page.likely]

(* Variant: `except PlaywrightTimeoutError` is missing, the timeout propagates *)
capture_failed_timeout_escapes(payload, outcome) ==
    [payload |-> [payload EXCEPT !.resolved_url = IF outcome.navigated
                                                 THEN outcome.page.resolved_url
                                                 ELSE None,
                                 !.error = ErrorMessage(outcome.result)],
     raised |-> IF outcome.result = "timeout" THEN "PlaywrightTimeoutError" ELSE "none"]

(* Variant: dom_checksum is stored as soon as the HTML is read, before the
   failing step *)
capture_failed_keeps_checksum(payload, outcome) ==
    [payload |-> [payload EXCEPT !.resolved_url = IF outcome.navigated
                                                 THEN outcome.page.resolved_url
                                                 ELSE None,
                                 !.dom_checksum = IF outcome.navigated
                                                  THEN outcome.page.dom_checksum
                                                  ELSE None,
                                 !.error = ErrorMessage(outcome.result)],
     raised |-> "none"]

(* One of the except clauses ran: only payload["error"] is set; raised names
   the exception that leaves _capture_target, and every clause returns normally *)
capture_failed(payload, outcome) ==
    [payload |-> [payload EXCEPT !.resolved_url = IF outcome.navigated
                                                 THEN outcome.page.resolved_url
                                                 ELSE None,
                                 !.error = ErrorMessage(outcome.result)],
     raised |-> "none"]

(* Variant: a navigation that timed out is tried once more *)
goto_calls_retrying(target, outcome) ==
    IF Falsy(target_url(target)) THEN 0
    ELSE IF outcome.result = "timeout" THEN 2 ELSE 1

(* How many times _capture_target calls page.goto: not at all without a
   target URL, else once, inside the try, whatever the outcome *)
goto_calls(target, outcome) == IF Falsy(target_url(target)) THEN 0 ELSE 1

(* _capture_target: the payload it returns, or the exception it raises *)
_capture_target(target, run_mode, timestamp, outcome) ==
    LET payload == initial_payload(target, run_mode, timestamp)
    IN  IF Falsy(target_url(target))
        THEN [payload |-> [payload EXCEPT !.error = ErrorMessage("missing")],
              raised |-> "none"]
        ELSE IF outcome.result = "ok"
        THEN [payload |-> capture_ok(payload, outcome.page), raised |-> "none"]
        ELSE capture_failed(payload, outcome)

NoSnapshot ==
    [site_id |-> <<>>, target_url |-> None, resolved_url |-> None, captured_at |-> 0,
     mode |-> "", status |-> "", error |-> None, dom_checksum |-> None,
     form_signature |-> None, form_count |-> 0, has_captcha |-> FALSE,
     likely_multi_step |-> FALSE]

----------------------------------------------------------------------------
(* map.json *)

(* Content of a map.json file:
     absent    no file
     snapshot  the JSON object _write_map_json wrote
     badjson   text that is not JSON
     badbytes  bytes that are not UTF-8
     json_list valid JSON, a non-empty array
     json_null valid JSON, the value null                                  *)
AbsentFile == [kind |-> "absent", doc |-> NoSnapshot]
SnapshotFile(payload) == [kind |-> "snapshot", doc |-> payload]
DamagedKinds == {"badjson", "badbytes", "json_list", "json_null"}
DamagedFile(kind) == [kind |-> kind, doc |-> NoSnapshot]

(* _load_existing_map.  raised names the exception that leaves the method;
   value is previous_map: kind "none" is None, "dict" a snapshot object. *)
_load_existing_map(file) ==
    CASE file.kind = "absent" ->
            [raised |-> "none", value |-> [kind |-> "none", doc |-> NoSnapshot]]
      [] file.kind = "badjson" ->
            [raised |-> "none", value |-> [kind |-> "none", doc |-> NoSnapshot]]
      [] file.kind = "badbytes" ->
            [raised |-> "UnicodeDecodeError", value |-> [kind |-> "none", doc |-> NoSnapshot]]
      [] file.kind = "snapshot" ->
            [raised |-> "none", value |-> [kind |-> "dict", doc |-> file.doc]]
      [] file.kind = "json_list" ->
            [raised |-> "none", value |-> [kind |-> "list", doc |-> NoSnapshot]]
      [] file.kind = "json_null" ->
            [raised |-> "none", value |-> [kind |-> "null", doc |-> NoSnapshot]]

(* bool(previous_map) *)
Truthy(previous_map) == previous_map.kind \in {"dict", "list"}

(* Variant: the mode is not looked at *)
should_diff_any_mode(run_mode, previous_map) == Truthy(previous_map)

(* `if mode == "monitor" and previous_map:` of _process_single_target *)
should_diff(run_mode, previous_map) == run_mode = "monitor" /\ Truthy(previous_map)

(* Variant: fields the new payload leaves empty keep the stored values *)
_write_map_json_merges(files, site_id, payload) ==
    [files EXCEPT ![site_id] =
        SnapshotFile(IF files[site_id].kind = "snapshot"
                     THEN [payload EXCEPT
                             !.dom_checksum = Or(payload.dom_checksum,
                                                 files[site_id].doc.dom_checksum),
                             !.form_signature = Or(payload.form_signature,
                                                   files[site_id].doc.form_signature)]
                     ELSE payload)]

(* _write_map_json *)
_write_map_json(files, site_id, payload) ==
    [files EXCEPT ![site_id] = SnapshotFile(payload)]

----------------------------------------------------------------------------
(* Diff *)

(* Variant: changed is reported whatever the tags *)
compare_maps_always_changed(previous, current) ==
    LET changes ==
            (IF previous.dom_checksum # current.dom_checksum THEN <<"DOM">> ELSE <<>>)
         \o (IF previous.form_signature # current.form_signature THEN <<"FORMS">> ELSE <<>>)
         \o (IF previous.has_captcha # current.has_captcha THEN <<"CAPTCHA">> ELSE <<>>)
         \o (IF previous.likely_multi_step # current.likely_multi_step
             THEN <<"STEP_HINT">> ELSE <<>>)
         \o (IF Or(previous.resolved_url, "") # Or(current.resolved_url, "")
             THEN <<"URL">> ELSE <<>>)
    IN  [changed |-> TRUE, change_types |-> changes]

(* Variant: the baseline is read back from map.json after the save, so the
   current snapshot is compared with itself *)
compare_maps_with_itself(previous, current) ==
    LET baseline == current
        changes ==
            (IF baseline.dom_checksum # current.dom_checksum THEN <<"DOM">> ELSE <<>>)
         \o (IF baseline.form_signature # current.form_signature THEN <<"FORMS">> ELSE <<>>)
         \o (IF baseline.has_captcha # current.has_captcha THEN <<"CAPTCHA">> ELSE <<>>)
         \o (IF baseline.likely_multi_step # current.likely_multi_step
             THEN <<"STEP_HINT">> ELSE <<>>)
         \o (IF Or(baseline.resolved_url, "") # Or(current.resolved_url, "")
             THEN <<"URL">> ELSE <<>>)
    IN  [changed |-> changes # <<>>, change_types |-> changes]

(* Variant: the has_captcha comparison is missing *)
compare_maps_without_captcha(previous, current) ==
    LET changes ==
            (IF previous.dom_checksum # current.dom_checksum THEN <<"DOM">> ELSE <<>>)
         \o (IF previous.form_signature # current.form_signature THEN <<"FORMS">> ELSE <<>>)
         \o (IF previous.likely_multi_step # current.likely_multi_step
             THEN <<"STEP_HINT">> ELSE <<>>)
         \o (IF Or(previous.resolved_url, "") # Or(current.resolved_url, "")
             THEN <<"URL">> ELSE <<>>)
    IN  [changed |-> changes # <<>>, change_types |-> changes]

compare_maps(previous, current) ==
    LET changes ==
            (IF previous.dom_checksum # current.dom_checksum THEN <<"DOM">> ELSE <<>>)
         \o (IF previous.form_signature # current.form_signature THEN <<"FORMS">> ELSE <<>>)
         \o (IF previous.has_captcha # current.has_captcha THEN <<"CAPTCHA">> ELSE <<>>)
         \o (IF previous.likely_multi_step # current.likely_multi_step
             THEN <<"STEP_HINT">> ELSE <<>>)
         \o (IF Or(previous.resolved_url, "") # Or(current.resolved_url, "")
             THEN <<"URL">> ELSE <<>>)
    IN  [changed |-> changes # <<>>, change_types |-> changes]

----------------------------------------------------------------------------
(* master_index.csv *)

(* The row _record_master_index builds from a capture *)
MasterRow(capture) ==
    [site_id |-> capture.site_id,
     target_url |-> Or(capture.target_url, ""),
     resolved_url |-> Or(capture.resolved_url, ""),
     last_mode |-> Or(capture.mode, ""),
     last_captured_at |-> capture.captured_at,
     status |-> Or(capture.status, "error"),
     last_error |-> Or(capture.error, ""),
     dom_checksum |-> Or(capture.dom_checksum, ""),
     form_signature |-> Or(capture.form_signature, ""),
     form_count |-> capture.form_count,
     has_captcha |-> capture.has_captcha,
     likely_multi_step |-> capture.likely_multi_step]

(* pd.read_csv(master_path): the site_id column is type-inferred *)
read_csv(rows) ==
    LET column == InferColumn([i \in 1..Len(rows) |-> rows[i].site_id])
    IN  [i \in 1..Len(rows) |-> [cell |-> column[i], row |-> rows[i]]]

(* df.to_csv(master_path, index=False) *)
to_csv(df) ==
    [i \in 1..Len(df) |-> [df[i].row EXCEPT !.site_id = CellText(df[i].cell)]]

(* Variant: the row is always appended, no row is replaced *)
upsert_appends(df, row) == Append(df, [cell |-> StrCell(row.site_id), row |-> row])

(* The upsert of _record_master_index on the DataFrame *)
upsert(df, row) ==
    LET key == StrCell(row.site_id)
        mask == [i \in 1..Len(df) |-> CellEq(df[i].cell, key)]
    IN  IF \E i \in 1..Len(df) : mask[i]
        THEN [i \in 1..Len(df) |->
                 IF mask[i] THEN [cell |-> key, row |-> row] ELSE df[i]]
        ELSE Append(df, [cell |-> key, row |-> row])

(* _record_master_index: the rows on disk afterwards; no rows = no file yet *)
_record_master_index(rows, capture) ==
    IF rows # <<>>
    THEN to_csv(upsert(read_csv(rows), MasterRow(capture)))
    ELSE to_csv(upsert(<<>>, MasterRow(capture)))

----------------------------------------------------------------------------
(* events.csv *)

SortedTags == <<"CAPTCHA", "DOM", "FORMS", "STEP_HINT", "URL">>

(* sorted(change_types) *)
sorted(change_types) ==
    LET Member(tag) == tag \in Range(change_types)
    IN  SelectSeq(SortedTags, Member)

(* Variant: the file is opened with "w" instead of "a" *)
append_csv_row_truncates(rows, row) == <<row>>

append_csv_row(rows, row) == Append(rows, row)

_log_change_event(rows, previous, current, change_types) ==
    append_csv_row(rows,
        [timestamp |-> current.captured_at,
         site_id |-> current.site_id,
         level |-> "CHANGE",
         change_type |-> change_types,
         dom_checksum_prev |-> Or(previous.dom_checksum, ""),
         dom_checksum_new |-> Or(current.dom_checksum, ""),
         form_signature_prev |-> Or(previous.form_signature, ""),
         form_signature_new |-> Or(current.form_signature, ""),
         resolved_url_prev |-> Or(previous.resolved_url, ""),
         resolved_url_new |-> Or(current.resolved_url, ""),
         details |-> sorted(change_types)])

----------------------------------------------------------------------------------------------------------------------------------------
(* Runs *)

Commands == {"map", "monitor"}
Limits == {NoLimit, <<1>>}
TargetLists == UNION {[1..n -> TargetRows] : n \in 1..MaxTargets}

(* The targets CSVs a run can be given: every list of rows under the full
   header, and one file whose header lacks a required column *)
TargetFiles ==
    {TargetsCsv(required, rows) : rows \in TargetLists}
    \cup {TargetsCsv(required \ {"notes"},
                     <<[site_id |-> <<"a">>, homepage |-> "https://a.test",
                        submission_url |-> ""]>>)}

(* Steps of _process_single_target that can raise besides the capture:
   browser.new_context, context.new_page, page.close, context.close,
   Path.write_text, the pandas read/write of the index, the append to the log *)
Faults == {"none", "new_context", "new_page", "page_close", "context_close",
           "write_map", "record_index", "log_event"}

NoLast ==
    [site_id |-> <<>>, file_kind |-> "absent", previous_kind |-> "none",
     context |-> "none", visited |-> None, navigations |-> 0,
     screenshot |-> "none", result |-> "",
     status |-> "",
     capture |-> NoSnapshot, captured |-> FALSE,
     saved |-> FALSE, indexed |-> FALSE, logged |-> FALSE, first_ok |-> FALSE,
     raised |-> "none"]

(* The latest entry of run_log *)
last == IF run_log = <<>> THEN NoLast ELSE run_log[Len(run_log)]

NoDiff == [changed |-> FALSE, change_types |-> <<"unset">>]

(* Variant: the loop of _run hands its targets to two executors *)
TwoWorkers == {1, 2}

(* Who executes the body of the loop of _run: the one caller of
   _process_single_target, the iterations following each other *)
Workers == {1}

(* What an executor holds between the steps of a target: previous_map, the
   capture, the DataFrame read from the index, the log as it was when opened *)
NoJob ==
    [previous |-> [kind |-> "none", doc |-> NoSnapshot], capture |-> NoSnapshot,
     df |-> <<>>, log |-> <<>>]

RunInit ==
    /\ io_pc = [w \in Workers |-> "idle"]
    /\ io_job = [w \in Workers |-> NoJob]
    /\ store = [s \in SiteIds |-> AbsentFile]
    /\ master_index = <<>>
    /\ events = <<>>
    /\ pc = "idle"
    /\ mode = "map"
    /\ targets_csv = NoCsv
    /\ targets = <<>>
    /\ limit = NoLimit
    /\ processed = 0
    /\ clock = 0
    /\ ok_seen = {}
    /\ run_log = <<>>

(* Nothing has been given to compare_maps, nothing to sanitize_site_id *)
CmpIdle ==
    /\ cmp_previous = NoSnapshot
    /\ cmp_current = NoSnapshot
    /\ cmp_diff = NoDiff

SanIdle ==
    /\ san_raw = <<>>
    /\ san_out = <<>>

NoSignatures == [canonical |-> <<>>, signature |-> <<>>]

SigIdle ==
    /\ sig_forms = <<>>
    /\ sig_out = NoSignatures

NoSignal == [likely |-> FALSE, signals |-> <<<<"u", "n", "s", "e", "t">>>>]

MsIdle ==
    /\ ms_forms = JArr(<<>>)
    /\ ms_html = <<>>
    /\ ms_out = NoSignal

NoVerdict == [value |-> FALSE, raised |-> "unset"]

DcIdle ==
    /\ dc_page = <<>>
    /\ dc_html = <<>>
    /\ dc_out = NoVerdict

TsIdle ==
    /\ ts_tree = <<>>
    /\ ts_el = 0
    /\ ts_out = <<>>

Init ==
    /\ RunInit
    /\ CmpIdle
    /\ SanIdle
    /\ SigIdle
    /\ MsIdle
    /\ DcIdle
    /\ TsIdle

Min(a, b) == IF a < b THEN a ELSE b

(* How many targets the loop of _run takes *)
Planned(list, lim) == IF lim = NoLimit THEN Len(list) ELSE Min(lim[1], Len(list))

(* main: load_targets, then map_targets or monitor_targets up to the loop *)
main(command, file, lim, cap) ==
    /\ pc = "idle"
    /\ IF lim = NoLimit THEN TRUE ELSE lim[1] < Len(file.rows)
    /\ clock + Planned(file.rows, lim) <= cap
    /\ targets_csv' = file
    /\ LET loaded == load_targets(file)
       IN  IF loaded.ok
           THEN /\ pc' = "running"
                /\ mode' = command
                /\ targets' = loaded.targets
                /\ limit' = lim
           ELSE /\ pc' = "rejected"
                /\ UNCHANGED <<mode, targets, limit>>
    /\ UNCHANGED <<store, master_index, events, processed, clock, ok_seen, run_log>>
    /\ UNCHANGED <<io_vars, pure_vars>>

(* The loop condition of _run *)
MoreTargets ==
    /\ processed < Len(targets)
    /\ IF limit = NoLimit THEN TRUE ELSE processed < limit[1]

(* One iteration of the loop of _run: processed += 1, _process_single_target.
   An exception that leaves _process_single_target leaves _run and main. *)
_process_single_target(outcome, fault, cap) ==
    /\ pc = "running"
    /\ MoreTargets
    /\ clock < cap
    /\ LET target == targets[processed + 1]
           sid == target.site_id
           loaded == _load_existing_map(store[sid])
           previous_map == loaded.value
           returned == _capture_target(target, mode, clock + 1, outcome)
           capture == returned.payload
           diffing == should_diff(mode, previous_map)
           diff == IF previous_map.kind = "dict"
                   THEN compare_maps(previous_map.doc, capture)
                   ELSE NoDiff
           entered == loaded.raised = "none" /\ fault \notin {"new_context", "new_page"}
           captured == entered /\ returned.raised = "none"
           saved == captured /\ fault \notin {"page_close", "context_close", "write_map"}
           indexed == saved /\ fault # "record_index"
           logging == indexed /\ diffing /\ previous_map.kind = "dict" /\ diff.changed
           logged == logging /\ fault # "log_event"
           \* the browsing context when _process_single_target is left: "none"
           \* was created, context.close() returned ("closed") or raised
           \* ("close_failed"), or it was never called ("leaked")
           context ==
               CASE loaded.raised # "none" \/ fault = "new_context" -> "none"
                 [] fault \in {"new_page", "page_close"} -> "leaked"
                 [] fault = "context_close" -> "close_failed"
                 [] OTHER -> "closed"
           raised ==
               CASE loaded.raised # "none" -> loaded.raised
                 [] fault \in {"new_context", "new_page"} -> "PlaywrightError"
                 [] returned.raised # "none" -> returned.raised
                 [] fault \in {"page_close", "context_close"} -> "PlaywrightError"
                 [] fault \in {"write_map", "record_index"} -> "OSError"
                 [] diffing /\ previous_map.kind = "list" -> "AttributeError"
                 [] logging /\ fault = "log_event" -> "OSError"
                 [] OTHER -> "none"
       IN  /\ processed' = processed + 1
           /\ clock' = IF entered THEN clock + 1 ELSE clock
           /\ store' = IF saved THEN _write_map_json(store, sid, capture) ELSE store
           /\ master_index' = IF indexed
                              THEN _record_master_index(master_index, capture)
                              ELSE master_index
           /\ events' = IF logged
                        THEN _log_change_event(events, previous_map.doc, capture,
                                               diff.change_types)
                        ELSE events
           /\ ok_seen' = IF captured /\ capture.status = "ok"
                         THEN ok_seen \cup {sid} ELSE ok_seen
           /\ run_log' = Append(run_log,
                      [site_id |-> sid,
                       file_kind |-> store[sid].kind,
                       previous_kind |-> previous_map.kind,
                       context |-> context,
                       visited |-> IF entered THEN target_url(target) ELSE None,
                       navigations |-> IF entered THEN goto_calls(target, outcome) ELSE 0,
                       screenshot |-> IF entered /\ ~Falsy(target_url(target))
                                      THEN outcome.shot ELSE "none",
                       result |-> IF ~entered THEN ""
                                  ELSE IF Falsy(target_url(target)) THEN "missing"
                                  ELSE outcome.result,
                       status |-> IF captured THEN capture.status ELSE "",
                       capture |-> IF saved THEN capture ELSE NoSnapshot,
                       captured |-> captured,
                       saved |-> saved,
                       indexed |-> indexed,
                       logged |-> logged,
                       first_ok |-> captured /\ capture.status = "ok" /\ sid \notin ok_seen,
                       raised |-> raised])
           /\ pc' = IF raised = "none" THEN "running" ELSE "aborted"
    /\ UNCHANGED <<mode, targets_csv, targets, limit>>
    /\ UNCHANGED <<io_vars, pure_vars>>

(* The loop of _run ends (list exhausted or limit reached); browser.close() *)
_run_end ==
    /\ pc = "running"
    /\ ~MoreTargets
    /\ pc' = "done"
    /\ UNCHANGED <<store, master_index, events, mode, targets_csv, targets, limit,
                   processed, clock, ok_seen, run_log>>
    /\ UNCHANGED <<io_vars, pure_vars>>

(* The process ends: return 0 after "All done.", return 1 after a failed
   load_targets, or the traceback of an exception that left _run *)
exit ==
    /\ pc \in {"done", "aborted", "rejected"}
    /\ pc' = "idle"
    /\ mode' = "map"
    /\ targets_csv' = NoCsv
    /\ targets' = <<>>
    /\ limit' = NoLimit
    /\ processed' = 0
    /\ run_log' = <<>>
    /\ UNCHANGED <<store, master_index, events, clock, ok_seen>>
    /\ UNCHANGED <<io_vars, pure_vars>>

(* Between runs a map.json the tool wrote is damaged on disk *)
DamageMap(site_id, kind, cap) ==
    /\ pc = "idle"
    /\ clock < cap
    /\ store[site_id].kind = "snapshot"
    /\ store' = [store EXCEPT ![site_id] = DamagedFile(kind)]
    /\ UNCHANGED <<master_index, events, pc, mode, targets_csv, targets, limit,
                   processed, clock, ok_seen, run_log>>
    /\ UNCHANGED <<io_vars, pure_vars>>

Next ==
    \/ \E command \in Commands, file \in TargetFiles, lim \in Limits :
           main(command, file, lim, MaxCaptures)
    \/ \E outcome \in Outcomes, fault \in Faults :
           _process_single_target(outcome, fault, MaxCaptures)
    \/ _run_end
    \/ exit
    \/ \E site_id \in SiteIds, kind \in DamagedKinds :
           DamageMap(site_id, kind, MaxCaptures)

Spec == Init /\ [][Next]_vars

----------------------------------------------------------------------------
(* One site watched over more runs: single-row target files for site "a" *)

WatchedFiles ==
    {TargetsCsv(required, <<row>>) :
        row \in {r \in TargetRows : r.site_id = <<"a">> /\ r.homepage # ""}}

LogNext ==
    \/ \E command \in Commands, file \in WatchedFiles :
           main(command, file, NoLimit, MaxLogCaptures)
    \/ \E outcome \in Outcomes, fault \in {"none", "log_event"} :
           _process_single_target(outcome, fault, MaxLogCaptures)
    \/ _run_end
    \/ exit
    \/ DamageMap(<<"a">>, "badjson", MaxLogCaptures)

LogSpec == Init /\ [][LogNext]_vars

----------------------------------------------------------------------------
(* One site whose row names a submission URL, a homepage, both or neither *)

UrlRows ==
    [site_id : {<<"a">>},
     homepage : {"", "https://a.test"},
     submission_url : {"", "https://a.test/submit"}]

UrlFiles ==
    {TargetsCsv(required, rows) : rows \in UNION {[1..n -> UrlRows] : n \in 1..MaxTargets}}

UrlNext ==
    \/ \E command \in Commands, file \in UrlFiles :
           main(command, file, NoLimit, MaxLogCaptures)
    \/ \E outcome \in Outcomes, fault \in {"none", "record_index"} :
           _process_single_target(outcome, fault, MaxLogCaptures)
    \/ _run_end
    \/ exit

UrlSpec == Init /\ [][UrlNext]_vars

----------------------------------------------------------------------------
(* The directory "Acme Co!" mapped and then monitored while its page gets a
   captcha *)

AcmeFiles == {TargetsCsv(required, <<AcmeRow>>)}

AcmePages ==
    { [resolved_url |-> "https://acme.test/", html |-> Html1, forms |-> Forms1,
       has_captcha |-> FALSE],
      [resolved_url |-> "https://acme.test/", html |-> Html2, forms |-> Forms1,
       has_captcha |-> TRUE] }

AcmeOutcomes ==
    { [result |-> "ok", navigated |-> TRUE, shot |-> "ok", page |-> extracted(p)] : p \in AcmePages }
    \cup { [result |-> "timeout", navigated |-> FALSE, shot |-> "none", page |-> NoPage] }

AcmeNext ==
    \/ \E command \in Commands, file \in AcmeFiles :
           main(command, file, NoLimit, MaxLogCaptures)
    \/ \E outcome \in AcmeOutcomes, fault \in {"none", "log_event"} :
           _process_single_target(outcome, fault, MaxLogCaptures)
    \/ _run_end
    \/ exit

AcmeSpec == Init /\ [][AcmeNext]_vars

(* The same directory on pages whose screenshot succeeds or fails: in the
   driver, or while sshot.png is written *)
ShotResults == {"ok", "OSError"} \cup PlaywrightErrors

ShotOutcomes == {with_screenshot(p, s) : p \in AcmePages, s \in ShotResults}

ShotNext ==
    \/ \E command \in Commands, file \in AcmeFiles :
           main(command, file, NoLimit, MaxLogCaptures)
    \/ \E outcome \in ShotOutcomes, fault \in {"none", "write_map"} :
           _process_single_target(outcome, fault, MaxLogCaptures)
    \/ _run_end
    \/ exit

ShotSpec == Init /\ [][ShotNext]_vars

(* A second row whose site_id is another spelling of the same directory *)
AcmeTwinRow ==
    [site_id |-> <<"a", "c", "m", "e", "-", "c", "o">>, homepage |-> "https://acme.example", submission_url |-> ""]

(* The CSVs listing each spelling at most once *)
TwinFiles ==
    {TargetsCsv(required, rows) :
        rows \in {list \in UNION {[1..n -> {AcmeRow, AcmeTwinRow}] : n \in 1..MaxTargets} :
                     \A i, j \in 1..Len(list) : list[i] = list[j] => i = j}}

TwinNext ==
    \/ \E command \in Commands, file \in TwinFiles :
           main(command, file, NoLimit, MaxLogCaptures)
    \/ \E outcome \in AcmeOutcomes, fault \in {"none", "new_context"} :
           _process_single_target(outcome, fault, MaxLogCaptures)
    \/ _run_end
    \/ exit

TwinSpec == Init /\ [][TwinNext]_vars

----------------------------------------------------------------------------
(* _process_single_target step by step: the two files every target shares,
   master_index.csv and events.csv, are read and written in separate steps *)

SharedFiles ==
    {TargetsCsv(required, rows) :
        rows \in UNION {[1..n -> {AcmeRow, AcmeTwinRow,
                                 [site_id |-> <<"a">>, homepage |-> "https://a.test",
                                  submission_url |-> ""]}] : n \in 1..MaxTargets}}

(* processed += 1; _load_existing_map, the capture in its own context,
   _write_map_json *)
StartTarget(w, outcome, cap) ==
    /\ pc = "running"
    /\ io_pc[w] = "idle"
    /\ MoreTargets
    /\ clock < cap
    /\ LET target == targets[processed + 1]
           loaded == _load_existing_map(store[target.site_id])
           returned == _capture_target(target, mode, clock + 1, outcome)
           capture == returned.payload
       IN  /\ loaded.raised = "none"
           /\ returned.raised = "none"
           /\ processed' = processed + 1
           /\ clock' = clock + 1
           /\ store' = _write_map_json(store, target.site_id, capture)
           /\ io_job' = [io_job EXCEPT ![w] = [NoJob EXCEPT !.previous = loaded.value,
                                                           !.capture = capture]]
           /\ io_pc' = [io_pc EXCEPT ![w] = "saved"]
           /\ ok_seen' = IF capture.status = "ok"
                         THEN ok_seen \cup {target.site_id} ELSE ok_seen
    /\ UNCHANGED <<master_index, events, pc, mode, targets_csv, targets, limit, run_log>>
    /\ UNCHANGED pure_vars

(* _record_master_index: df = pd.read_csv(master_path), or the empty frame *)
IndexRead(w) ==
    /\ io_pc[w] = "saved"
    /\ io_job' = [io_job EXCEPT ![w].df = read_csv(master_index)]
    /\ io_pc' = [io_pc EXCEPT ![w] = "index_read"]
    /\ UNCHANGED <<store, master_index, events, pc, mode, targets_csv, targets, limit,
                   processed, clock, ok_seen, run_log>>
    /\ UNCHANGED pure_vars

(* _record_master_index: the upsert on df and df.to_csv(master_path) *)
IndexWrite(w) ==
    /\ io_pc[w] = "index_read"
    /\ master_index' = to_csv(upsert(io_job[w].df, MasterRow(io_job[w].capture)))
    /\ io_pc' = [io_pc EXCEPT ![w] = "indexed"]
    /\ UNCHANGED <<store, events, pc, mode, targets_csv, targets, limit, processed,
                   clock, ok_seen, run_log, io_job>>
    /\ UNCHANGED pure_vars

(* `if mode == "monitor" and previous_map`, compare_maps, and for a change
   append_csv_row up to path.open("a") *)
Diff(w) ==
    /\ io_pc[w] = "indexed"
    /\ LET job == io_job[w]
           changed == /\ should_diff(mode, job.previous)
                      /\ job.previous.kind = "dict"
                      /\ compare_maps(job.previous.doc, job.capture).changed
       IN  IF changed
           THEN /\ io_pc' = [io_pc EXCEPT ![w] = "log_open"]
                /\ io_job' = [io_job EXCEPT ![w].log = events]
           ELSE /\ io_pc' = [io_pc EXCEPT ![w] = "idle"]
                /\ io_job' = [io_job EXCEPT ![w] = NoJob]
    /\ UNCHANGED <<store, master_index, events, pc, mode, targets_csv, targets, limit,
                   processed, clock, ok_seen, run_log>>
    /\ UNCHANGED pure_vars

(* append_csv_row: writer.writerow on the file opened for append *)
LogAppend(w) ==
    /\ io_pc[w] = "log_open"
    /\ LET job == io_job[w]
       IN  events' = _log_change_event(events, job.previous.doc, job.capture,
                         compare_maps(job.previous.doc, job.capture).change_types)
    /\ io_pc' = [io_pc EXCEPT ![w] = "idle"]
    /\ io_job' = [io_job EXCEPT ![w] = NoJob]
    /\ UNCHANGED <<store, master_index, pc, mode, targets_csv, targets, limit,
                   processed, clock, ok_seen, run_log>>
    /\ UNCHANGED pure_vars

(* The loop of _run ends once the last iteration has returned *)
LoopEnd ==
    /\ \A w \in Workers : io_pc[w] = "idle"
    /\ _run_end

SerialNext ==
    \/ \E command \in Commands, file \in SharedFiles :
           main(command, file, NoLimit, MaxLogCaptures)
    \/ \E w \in Workers, outcome \in AcmeOutcomes : StartTarget(w, outcome, MaxLogCaptures)
    \/ \E w \in Workers : IndexRead(w)
    \/ \E w \in Workers : IndexWrite(w)
    \/ \E w \in Workers : Diff(w)
    \/ \E w \in Workers : LogAppend(w)
    \/ LoopEnd
    \/ exit

SerialSpec == Init /\ [][SerialNext]_vars

----------------------------------------------------------------------------
(* compare_maps as a function of two snapshots *)

AllPages ==
    [resolved_url : {"https://a.test/", "https://a.test/new"},
     html : {Html1, Html2, Html4},
     forms : {Forms1, Forms2},
     has_captcha : BOOLEAN]

AllOutcomes ==
    { [result |-> "ok", navigated |-> TRUE, shot |-> "ok", page |-> extracted(p)] : p \in AllPages }
    \cup { [result |-> "timeout", navigated |-> FALSE, shot |-> "none", page |-> NoPage] }
    \cup { [result |-> "playwright", navigated |-> TRUE, shot |-> "none",
            page |-> [NoPage EXCEPT !.resolved_url = u]] :
              u \in {"https://a.test/", "https://a.test/new"} }

SampleTarget ==
    [site_id |-> <<"a">>, homepage |-> "https://a.test", submission_url |-> None,
     raw_site_id |-> <<"a">>]

(* The snapshots _capture_target can produce for one target *)
Snapshots(run_mode, timestamp) ==
    {_capture_target(SampleTarget, run_mode, timestamp, o).payload : o \in AllOutcomes}

DiffInit ==
    /\ RunInit
    /\ cmp_previous \in Snapshots("map", 1)
    /\ cmp_current \in Snapshots("monitor", 2)
    /\ cmp_diff = NoDiff
    /\ SanIdle
    /\ SigIdle
    /\ MsIdle
    /\ DcIdle
    /\ TsIdle

Compare ==
    /\ cmp_diff = NoDiff
    /\ cmp_diff' = compare_maps(cmp_previous, cmp_current)
    /\ UNCHANGED <<cmp_previous, cmp_current>>
    /\ UNCHANGED run_vars
    /\ UNCHANGED <<san_vars, sig_vars, ms_vars, dc_vars, ts_vars>>

DiffNext == Compare

DiffSpec == DiffInit /\ [][DiffNext]_vars

----------------------------------------------------------------------------
(* sanitize_site_id as a function of the raw identifier, applied to its own
   result *)

(* A lower-case and an upper-case letter, a digit, the two kept signs, a space
   and a punctuation mark *)
IdAlphabet == {"a", "A", "7", "-", "_", " ", "!"}

AcmeCo == <<"A", "c", "m", "e", " ", "C", "o", "!">>

RawIds == UNION {[1..n -> IdAlphabet] : n \in 0..MaxIdLen} \cup {AcmeCo}

SanInit ==
    /\ RunInit
    /\ CmpIdle
    /\ san_raw \in RawIds
    /\ san_out = <<>>
    /\ SigIdle
    /\ MsIdle
    /\ DcIdle
    /\ TsIdle

Sanitize ==
    /\ Len(san_out) < 2
    /\ san_out' = Append(san_out,
                         sanitize_site_id(IF san_out = <<>> THEN san_raw
                                          ELSE san_out[Len(san_out)]))
    /\ UNCHANGED san_raw
    /\ UNCHANGED run_vars
    /\ UNCHANGED <<cmp_vars, sig_vars, ms_vars, dc_vars, ts_vars>>

SanNext == Sanitize

SanSpec == SanInit /\ [][SanNext]_vars

----------------------------------------------------------------------------
(* compute_form_signature as a function of the forms list *)

Reverse(seq) == [i \in 1..Len(seq) |-> seq[Len(seq) + 1 - i]]

(* The same value built with the keys of every dict inserted in the opposite
   order *)
RECURSIVE ReKeyed(_)
ReKeyed(value) ==
    CASE value.t = "arr" ->
            JArr([i \in 1..Len(value.items) |-> ReKeyed(value.items[i])])
      [] value.t = "obj" ->
            JObj(Reverse([i \in 1..Len(value.items) |->
                             Item(value.items[i].k, ReKeyed(value.items[i].v))]))
      [] OTHER -> value

(* Forms lists of one and of two forms, with the fields, the submit
   candidates and the forms in either order, and the keys in either order *)
SignedLists ==
    LET fields == {<<EmailField, UrlField>>, <<UrlField, EmailField>>}
        submitters == {<<SubmitButton, SaveButton>>, <<SaveButton, SubmitButton>>}
        listing(f, s) == Form(0, JStr(<<"/", "a", "d", "d">>), <<Item(<<"s", "t", "e", "p">>, JStr(<<"1">>))>>, f, s)
        built == UNION {{JArr(<<listing(f, s)>>),
                         JArr(<<listing(f, s), SearchForm>>),
                         JArr(<<SearchForm, listing(f, s)>>)} :
                            f \in fields, s \in submitters}
    IN  built \cup {ReKeyed(forms) : forms \in built}

SigInit ==
    /\ RunInit
    /\ CmpIdle
    /\ SanIdle
    /\ sig_forms \in SignedLists \X SignedLists
    /\ sig_out = NoSignatures
    /\ MsIdle
    /\ DcIdle
    /\ TsIdle

Sign ==
    /\ sig_out = NoSignatures
    /\ sig_out' = [canonical |-> <<json_dumps(sig_forms[1]), json_dumps(sig_forms[2])>>,
                   signature |-> <<compute_form_signature(sig_forms[1]),
                                   compute_form_signature(sig_forms[2])>>]
    /\ UNCHANGED sig_forms
    /\ UNCHANGED run_vars
    /\ UNCHANGED <<cmp_vars, san_vars, ms_vars, dc_vars, ts_vars>>

SigNext == Sign

SigSpec == SigInit /\ [][SigNext]_vars

----------------------------------------------------------------------------
(* infer_multi_step as a function of the forms list and the HTML text *)

NextButton == Submitter(<<"b", "u", "t", "t", "o", "n", "#", "n", "e", "x", "t">>, <<"N", "e", "x", "t">>, <<"s", "u", "b", "m", "i", "t">>)
NextLink == Submitter(<<"a", ".", "b", "t", "n">>, <<"N", "e", "x", "t">>, <<"a">>)
ContinueButton == Submitter(<<"f", "o", "r", "m", " ", ">", " ", "b", "u", "t", "t", "o", "n">>, <<"C", "O", "N", "T", "I", "N", "U", "E">>, <<"b", "u", "t", "t", "o", "n">>)
IconButton == Submitter(<<"b", "u", "t", "t", "o", "n", ".", "i", "c", "o", "n">>, <<>>, <<"b", "u", "t", "t", "o", "n">>)

SubmitterLists ==
    UNION {[1..n -> {NextButton, NextLink, ContinueButton, SaveButton, IconButton}] :
              n \in 0..MaxSubmitters}

Datasets ==
    { <<>>,
      <<Item(<<"t", "h", "e", "m", "e">>, JStr(<<"d", "a", "r", "k">>))>>,
      <<Item(<<"s", "t", "e", "p">>, JStr(<<"1">>))>>,
      <<Item(<<"p", "a", "g", "e">>, JStr(<<"S", "t", "e", "p", "-", "2">>)), Item(<<"s", "t", "e", "p">>, JStr(<<"1">>))>> }

HintedHtml == {Html1, Html4, <<"<", "o", "l", " ", "r", "o", "l", "e", "=", "p", "r", "o", "g", "r", "e", "s", "s", "b", "a", "r", " ", "d", "a", "t", "a", "-", "s", "t", "e", "p", "=", "1", ">", "<", "f", "o", "r", "m", ">", "<", "/", "f", "o", "r", "m", ">", "<", "/", "o", "l", ">">>}

HintedForms ==
    {JArr(<<>>)}
    \cup UNION {{JArr(<<Form(0, JNull, d, <<EmailField>>, s)>>),
                 JArr(<<Form(0, JNull, d, <<EmailField>>, s), SearchForm>>)} :
                    d \in Datasets, s \in SubmitterLists}

MsInit ==
    /\ RunInit
    /\ CmpIdle
    /\ SanIdle
    /\ SigIdle
    /\ ms_forms \in HintedForms
    /\ ms_html \in HintedHtml
    /\ ms_out = NoSignal
    /\ DcIdle
    /\ TsIdle

Infer ==
    /\ ms_out = NoSignal
    /\ ms_out' = infer_multi_step(ms_forms, ms_html)
    /\ UNCHANGED <<ms_forms, ms_html>>
    /\ UNCHANGED run_vars
    /\ UNCHANGED <<cmp_vars, san_vars, sig_vars, dc_vars, ts_vars>>

MsNext == Infer

MsSpec == MsInit /\ [][MsNext]_vars

----------------------------------------------------------------------------
(* detect_captcha as a function of the page's answers and the HTML text *)

(* What one probe does: a count of matching elements, or an exception of the
   driver or of anything else *)
Answers ==
    {[raised |-> "none", count |-> n] : n \in 0..MaxMatches}
    \cup {[raised |-> x, count |-> 0] : x \in PlaywrightErrors \cup {"RuntimeError"}}

(* Pages on which at most two selectors match or fail *)
ProbedPages ==
    {[i \in 1..Len(selectors) |->
         IF i = a THEN x ELSE IF i = b THEN y ELSE [raised |-> "none", count |-> 0]] :
            a \in 1..Len(selectors), b \in 1..Len(selectors), x \in Answers, y \in Answers}

ProbedHtml == {<<>>, Html1, Html2, <<"<", "d", "i", "v", " ", "i", "d", "=", "\"", "A", "R", "K", "O", "S", "E", "\"", ">", "<", "/", "d", "i", "v", ">">>}

DcInit ==
    /\ RunInit
    /\ CmpIdle
    /\ SanIdle
    /\ SigIdle
    /\ MsIdle
    /\ TsIdle
    /\ dc_page \in ProbedPages
    /\ dc_html \in ProbedHtml
    /\ dc_out = NoVerdict

Detect ==
    /\ dc_out = NoVerdict
    /\ dc_out' = detect_captcha(dc_page, dc_html)
    /\ UNCHANGED <<dc_page, dc_html>>
    /\ UNCHANGED run_vars
    /\ UNCHANGED <<cmp_vars, san_vars, sig_vars, ms_vars, ts_vars>>

DcNext == Detect

DcSpec == DcInit /\ [][DcNext]_vars

----------------------------------------------------------------------------
(* toSelector as a function of the DOM tree and the element *)

(* What an element can be, but for its parent *)
ElementKinds ==
    { Element(<<"D", "I", "V">>, <<>>, <<>>, 0),
      Element(<<"D", "I", "V">>, <<>>, <<<<"r", "o", "w">>, <<"b", "i", "g">>>>, 0),
      Element(<<"F", "O", "R", "M">>, <<"m", "a", "i", "n">>, <<>>, 0),
      Element(<<"B", "U", "T", "T", "O", "N">>, <<>>, <<<<"b", "t", "n">>>>, 0),
      Element(<<"B", "U", "T", "T", "O", "N">>, <<"g", "o">>, <<<<"b", "t", "n">>>>, 0) }

(* Every tree of up to MaxNodes elements: each element after the root hangs
   under an earlier one *)
Trees ==
    UNION {{[i \in 1..n |-> [kinds[i] EXCEPT !.parent = parents[i]]] :
               kinds \in [1..n -> ElementKinds],
               parents \in {p \in [1..n -> 0..(n - 1)] :
                               \A i \in 1..n : IF i = 1 THEN p[i] = 0
                                                ELSE p[i] >= 1 /\ p[i] < i}} :
              n \in 1..MaxNodes}

TsInit ==
    /\ RunInit
    /\ CmpIdle
    /\ SanIdle
    /\ SigIdle
    /\ MsIdle
    /\ DcIdle
    /\ ts_tree \in Trees
    /\ ts_el \in 0..Len(ts_tree)
    /\ ts_out = <<>>

(* One more call on the unchanged tree *)
Select ==
    /\ ts_tree # <<>>
    /\ Len(ts_out) < 2
    /\ ts_out' = Append(ts_out, toSelector(ts_tree, ts_el))
    /\ UNCHANGED <<ts_tree, ts_el>>
    /\ UNCHANGED run_vars
    /\ UNCHANGED <<cmp_vars, san_vars, sig_vars, ms_vars, dc_vars>>

TsNext == Select

TsSpec == TsInit /\ [][TsNext]_vars

----------------------------------------------------------------------------
(* Properties *)

IsPrefix(a, b) == Len(a) <= Len(b) /\ SubSeq(b, 1, Len(a)) = a

RowsOf(site_id) == {i \in 1..Len(master_index) : master_index[i].site_id = site_id}

TrackedFields(doc) ==
    <<doc.dom_checksum, doc.form_signature, doc.has_captcha, doc.likely_multi_step,
      doc.resolved_url>>

(* Exceptions of the steps of _process_single_target other than the capture *)
OtherStepFailures == {"PlaywrightError", "OSError", "AttributeError", "UnicodeDecodeError"}

(* C1: the first capture of a site_id that ends with status=ok appends no
   ChangeEvent, also when earlier captures of that site_id ended in error. *)
C1_NoBaselineRule ==
    \A i \in 1..Len(run_log) : run_log[i].first_ok => ~run_log[i].logged

(* C2: the master index holds no two rows with the same site_id, and the row of
   the site_id captured last carries the data of that capture. *)
C2_IndexUniqueness ==
    /\ \A i, j \in 1..Len(master_index) :
           master_index[i].site_id = master_index[j].site_id => i = j
    /\ last.indexed =>
           \E i \in RowsOf(last.site_id) : master_index[i] = MasterRow(last.capture)

(* C3: every step leaves the rows of events.csv that existed before it in
   place and in order: the old log is a prefix of the new one. *)
C3_AppendOnly == [][IsPrefix(events, events')]_vars

C3_Witness == Len(events) >= 2

(* C4: a step appends an event only if a snapshot was stored for the target's
   site_id when it was loaded and one of the five tracked fields differs from
   it; the event has a non-empty change_type, and a step appends at most one. *)
C4_EventOnlyOnChange ==
    [][events' # events =>
          LET entry == run_log'[Len(run_log')]
              event == events'[Len(events')]
          IN  /\ Len(run_log') = Len(run_log) + 1
              /\ events' = Append(events, event)
              /\ event.site_id = entry.site_id
              /\ event.change_type # <<>>
              /\ store[entry.site_id].kind = "snapshot"
              /\ TrackedFields(store[entry.site_id].doc) # TrackedFields(entry.capture)
      ]_vars

C4_Witness == last.logged /\ events # <<>> /\ last.status = "ok"

(* C5: compare_maps reports each of the five tags exactly when its field
   differs, no other tag and none twice, and changed exactly when a tag is
   reported. *)
C5_DiffExactness ==
    cmp_diff # NoDiff =>
        LET tags == Range(cmp_diff.change_types)
        IN  /\ "DOM" \in tags <=> cmp_previous.dom_checksum # cmp_current.dom_checksum
            /\ "FORMS" \in tags <=> cmp_previous.form_signature # cmp_current.form_signature
            /\ "CAPTCHA" \in tags <=> cmp_previous.has_captcha # cmp_current.has_captcha
            /\ "STEP_HINT" \in tags <=>
                   cmp_previous.likely_multi_step # cmp_current.likely_multi_step
            /\ "URL" \in tags <=> cmp_previous.resolved_url # cmp_current.resolved_url
            /\ tags \subseteq {"DOM", "FORMS", "CAPTCHA", "STEP_HINT", "URL"}
            /\ Cardinality(tags) = Len(cmp_diff.change_types)
            /\ cmp_diff.changed <=> tags # {}

C5_Witness ==
    /\ cmp_diff.change_types = <<"CAPTCHA">>
    /\ cmp_diff.changed
    /\ ~cmp_previous.has_captcha
    /\ cmp_current.has_captcha

(* C6: a target whose capture ends in a navigation timeout, and whose other
   steps do not fail, does not stop the run: the loop goes on, a finished run
   has taken every target within the limit, and each later target whose own
   steps do not fail is captured, has its snapshot saved and its row upserted. *)
C6_BatchResilience ==
    \A i \in 1..Len(run_log) :
        (run_log[i].result = "timeout" /\ run_log[i].raised \notin OtherStepFailures) =>
            /\ i = Len(run_log) => pc \in {"running", "done"}
            /\ pc = "done" => Len(run_log) = Planned(targets, limit)
            /\ \A j \in (i + 1)..Len(run_log) :
                   run_log[j].raised = "none" =>
                       /\ run_log[j].captured /\ run_log[j].saved /\ run_log[j].indexed
                       /\ j = Len(run_log) =>
                              /\ store[run_log[j].site_id] = SnapshotFile(run_log[j].capture)
                              /\ \E r \in RowsOf(run_log[j].site_id) :
                                     master_index[r] = MasterRow(run_log[j].capture)

C6_Witness ==
    /\ pc = "done"
    /\ Len(run_log) = 2
    /\ run_log[1].result = "timeout"
    /\ run_log[2].status = "ok"
    /\ run_log[2].indexed

(* C7: no failure of a step of _process_single_target leaves it and stops the
   run. *)
C7_NoFailureEscapes ==
    /\ pc # "aborted"
    /\ \A i \in 1..Len(run_log) : run_log[i].raised = "none"

(* C8: after a target whose capture ended with status=error has been
   processed, the index has a row for its site_id and every row of that
   site_id carries status=error and the error message of this capture. *)
C8_ErrorStillIndexed ==
    (last.captured /\ last.status = "error" /\ last.raised = "none") =>
        /\ RowsOf(last.site_id) # {}
        /\ \A i \in RowsOf(last.site_id) :
               /\ master_index[i].status = "error"
               /\ master_index[i].last_error = last.capture.error
               /\ master_index[i].last_captured_at = last.capture.captured_at

BothOrNeither(doc) ==
    /\ doc.status \in {"ok", "error"}
    /\ doc.status = "ok" => doc.dom_checksum # None /\ doc.form_signature # None
    /\ doc.status = "error" => doc.dom_checksum = None /\ doc.form_signature = None

(* C9: every snapshot _capture_target returned and every snapshot stored has
   dom_checksum and form_signature both present when status=ok and both absent
   when status=error. *)
C9_ChecksumsTogether ==
    /\ \A s \in SiteIds : store[s].kind = "snapshot" => BothOrNeither(store[s].doc)
    /\ \A i \in 1..Len(run_log) : run_log[i].saved => BothOrNeither(run_log[i].capture)

C9_Witness ==
    \E s, t \in SiteIds :
        /\ store[s].kind = "snapshot" /\ store[s].doc.status = "ok"
        /\ store[t].kind = "snapshot" /\ store[t].doc.status = "error"
        /\ store[t].doc.resolved_url # None

(* C10: a target whose stored map.json is damaged in any way is processed as
   one without a baseline: no exception of the load or of the diff leaves
   _process_single_target, no event is appended, and the capture is saved. *)
C10_CorruptIsNoBaseline ==
    \A i \in 1..Len(run_log) :
        run_log[i].file_kind \in DamagedKinds =>
            /\ run_log[i].raised \notin {"UnicodeDecodeError", "AttributeError"}
            /\ ~run_log[i].logged
            /\ run_log[i].raised = "none" => run_log[i].saved

(* C11: the URL a target is visited at is the submission_url of its row when
   that is present, otherwise its homepage; a target whose row has neither is
   not visited at all, and its capture is a status=error snapshot with an
   error message that is saved as map.json and upserted into the index. *)
C11_TargetUrl ==
    \A i \in 1..Len(run_log) :
        LET row == targets_csv.rows[i]
            entry == run_log[i]
        IN  entry.raised = "none" =>
              /\ row.submission_url # "" => entry.visited = row.submission_url
              /\ (row.submission_url = "" /\ row.homepage # "") =>
                     entry.visited = row.homepage
              /\ (row.submission_url = "" /\ row.homepage = "") =>
                     /\ entry.visited = None
                     /\ entry.result = "missing"
                     /\ entry.saved /\ entry.indexed
                     /\ entry.capture.status = "error"
                     /\ entry.capture.error \notin {None, ""}
                     /\ entry.capture.resolved_url = None
                     /\ i = Len(run_log) =>
                            /\ store[entry.site_id] = SnapshotFile(entry.capture)
                            /\ \E r \in RowsOf(entry.site_id) :
                                   master_index[r] = MasterRow(entry.capture)

C11_Witness ==
    /\ Len(run_log) = 2
    /\ targets_csv.rows[1].homepage # ""
    /\ run_log[1].visited = "https://a.test/submit"
    /\ run_log[2].result = "missing"
    /\ run_log[2].indexed
    /\ store[<<"a">>].doc.status = "error"

(* A targets CSV that lacks a required column or has a row without site_id *)
Malformed(file) ==
    \/ required \ file.columns # {}
    \/ \E i \in 1..Len(file.rows) : file.rows[i].site_id = <<>>

(* C12: a run given a targets CSV that lacks a required column, or that has a
   row with an empty site_id anywhere, is rejected before any capture: no
   target is processed, and no map.json, index row or event is written, also
   when valid rows precede the malformed one. *)
C12_PreflightAllOrNothing ==
    [][(targets_csv' # NoCsv /\ Malformed(targets_csv')) =>
          /\ pc' = "rejected"
          /\ targets' = <<>>
          /\ run_log' = <<>>
          /\ processed' = 0
          /\ clock' = clock
          /\ store' = store
          /\ master_index' = master_index
          /\ events' = events
      ]_vars

C12_Witness ==
    /\ pc = "rejected"
    /\ Len(targets_csv.rows) = 2
    /\ targets_csv.rows[1].site_id = <<"a">>
    /\ targets_csv.rows[1].homepage # ""
    /\ targets_csv.rows[2].site_id = <<>>
    /\ store[<<"a">>].kind = "absent"

(* C13: sanitize_site_id applied to its own result returns that result, for
   every raw identifier of letters of both cases, digits, '-', '_', spaces and
   punctuation up to the length bound; and "Acme Co!" becomes "acme-co". *)
C13_SanitizeIdempotent ==
    /\ Len(san_out) = 2 => san_out[2] = san_out[1]
    /\ (san_raw = AcmeCo /\ san_out # <<>>) =>
           san_out[1] = <<"a", "c", "m", "e", "-", "c", "o">>

C13_Witness ==
    /\ san_raw = <<"!", "A", "-", " ", "7">>
    /\ san_out = << <<"a", "-", "7">>, <<"a", "-", "7">> >>

(* Two JSON values with the same content: lists equal element by element in
   order, dicts equal key by key whatever the insertion order *)
RECURSIVE SameContent(_, _)
SameContent(x, y) ==
    /\ x.t = y.t
    /\ x.s = y.s
    /\ Len(x.items) = Len(y.items)
    /\ IF x.t = "obj"
       THEN /\ Keys(x) = Keys(y)
            /\ \A key \in Keys(x) : SameContent(Get(x, key, JNull), Get(y, key, JNull))
       ELSE \A i \in 1..Len(x.items) : SameContent(x.items[i], y.items[i])

(* C14: two forms lists with the same content get the same form_signature
   whatever order their objects list their keys in (and the same list always
   gets the same signature), while two lists that differ, in particular by the
   order of the forms or of a form's fields or submitters, get different
   canonical serializations. *)
C14_SignatureCanonical ==
    sig_out # NoSignatures =>
        /\ SameContent(sig_forms[1], sig_forms[2]) =>
               sig_out.signature[1] = sig_out.signature[2]
        /\ ~SameContent(sig_forms[1], sig_forms[2]) =>
               sig_out.canonical[1] # sig_out.canonical[2]

C14_Witness ==
    /\ sig_out # NoSignatures
    /\ Len(sig_forms[1].items) = 2
    /\ sig_forms[2] = ReKeyed(sig_forms[1])
    /\ sig_forms[2] # sig_forms[1]
    /\ sig_out.signature[1] = sig_out.signature[2]

(* How many submit candidates of a forms list have the given text *)
SubmittersWithText(forms, text) ==
    Cardinality({<<i, j>> \in (1..Len(forms.items)) \X (1..MaxSubmitters) :
                    /\ j <= Len(Get(forms.items[i], <<"s", "u", "b", "m", "i", "t", "t", "e", "r", "s">>, JArr(<<>>)).items)
                    /\ Get(Get(forms.items[i], <<"s", "u", "b", "m", "i", "t", "t", "e", "r", "s">>, JArr(<<>>)).items[j],
                           <<"t", "e", "x", "t">>, JNull).s = text})

(* C15: the signals infer_multi_step returns are in strictly ascending order
   of str, hence without duplicates, and likely is true exactly when there is
   a signal; a forms list with two submit candidates of text "Next" gives the
   signal of that text exactly once. *)
C15_SignalsSortedUnique ==
    ms_out # NoSignal =>
        /\ \A i, j \in 1..Len(ms_out.signals) :
               i < j => LessText(ms_out.signals[i], ms_out.signals[j])
        /\ ms_out.likely <=> ms_out.signals # <<>>
        /\ SubmittersWithText(ms_forms, <<"N", "e", "x", "t">>) = 2 =>
               Cardinality({i \in 1..Len(ms_out.signals) :
                               ms_out.signals[i] = <<"s", "u", "b", "m", "i", "t", "-", "t", "e", "x", "t", ":", "n", "e", "x", "t">>}) = 1

C15_Witness ==
    /\ SubmittersWithText(ms_forms, <<"N", "e", "x", "t">>) = 2
    /\ ms_html = Html4
    /\ ms_out.likely
    /\ ms_out.signals = <<<<"d", "o", "m", ":", "w", "i", "z", "a", "r", "d", "-", "k", "e", "y", "w", "o", "r", "d">>, <<"f", "o", "r", "m", "-", "d", "a", "t", "a", "s", "e", "t", ":", "s", "t", "e", "p", "=", "1">>,
                           <<"s", "u", "b", "m", "i", "t", "-", "t", "e", "x", "t", ":", "n", "e", "x", "t">>>>

AcmeId == <<"a", "c", "m", "e", "-", "c", "o">>

(* C16: the first run on {site_id "Acme Co!", homepage https://acme.test},
   with nothing stored, whose page renders with one form, stores for site_id
   "acme-co" a status=ok snapshot with form_count 1 and appends no event; a
   later monitor run whose page differs from that snapshot by an added captcha
   and the markup that comes with it appends exactly one event, with
   change_types exactly CAPTCHA and DOM, and the index keeps exactly one row
   for "acme-co", holding the data of the second capture. *)
C16_AcmeScenario ==
    [][(Len(run_log') = Len(run_log) + 1 /\ last'.raised = "none"
        /\ targets_csv.rows = <<AcmeRow>>) =>
          /\ (store[AcmeId].kind = "absent" /\ last'.result = "ok") =>
                 /\ last'.site_id = AcmeId
                 /\ store'[AcmeId].kind = "snapshot"
                 /\ store'[AcmeId].doc.status = "ok"
                 /\ store'[AcmeId].doc.form_count = 1
                 /\ events' = events
                 /\ Len(master_index') = 1
                 /\ master_index'[1] = MasterRow(store'[AcmeId].doc)
          /\ (/\ mode = "monitor"
              /\ store[AcmeId].kind = "snapshot"
              /\ store[AcmeId].doc.status = "ok"
              /\ ~store[AcmeId].doc.has_captcha
              /\ last'.result = "ok"
              /\ last'.capture.has_captcha
              /\ last'.capture.form_signature = store[AcmeId].doc.form_signature
              /\ last'.capture.resolved_url = store[AcmeId].doc.resolved_url
              /\ last'.capture.likely_multi_step = store[AcmeId].doc.likely_multi_step) =>
                 /\ Len(events') = Len(events) + 1
                 /\ SubSeq(events', 1, Len(events)) = events
                 /\ Range(events'[Len(events')].change_type) = {"CAPTCHA", "DOM"}
                 /\ Len(events'[Len(events')].change_type) = 2
                 /\ events'[Len(events')].site_id = AcmeId
                 /\ Len(master_index') = 1
                 /\ master_index'[1].site_id = AcmeId
                 /\ master_index'[1] = MasterRow(last'.capture)
                 /\ store'[AcmeId] = SnapshotFile(last'.capture)
      ]_vars

C16_Witness ==
    /\ targets_csv.rows = <<AcmeRow>>
    /\ mode = "monitor"
    /\ clock = 2
    /\ Len(events) = 1
    /\ events[1].details = <<"CAPTCHA", "DOM">>
    /\ events[1].site_id = AcmeId
    /\ Len(master_index) = 1
    /\ master_index[1].site_id = AcmeId
    /\ master_index[1].has_captcha
    /\ master_index[1].last_captured_at = 2
    /\ store[AcmeId].doc.form_count = 1

(* C17: when a run without limit has ended normally, every row of its targets
   CSV has been captured and the index has a row holding that capture, also
   when two rows of the CSV sanitize to the same site_id. *)
C17_IndexReflectsEveryTarget ==
    (pc = "done" /\ limit = NoLimit) =>
        \A i \in 1..Len(targets_csv.rows) :
            /\ i <= Len(run_log)
            /\ run_log[i].captured
            /\ run_log[i].capture.target_url = targets_csv.rows[i].homepage
            /\ \E r \in 1..Len(master_index) :
                   master_index[r] = MasterRow(run_log[i].capture)

(* C18: whenever _process_single_target is left, normally or by an exception
   of context.new_page, of the capture or of page.close, the browsing context
   it created for the target has been closed by it. *)
C18_ContextReleased ==
    \A i \in 1..Len(run_log) : run_log[i].context # "leaked"

(* C19: at any moment at most one read-modify-write of master_index.csv or
   append to events.csv is in progress, and none works on stale content: the
   DataFrame about to be written back is the index as it is on disk, and the
   log about to be appended to is the log as it was opened, so no index update
   is lost and no two event rows interleave. *)
C19_WritesSerialized ==
    /\ Cardinality({w \in Workers : io_pc[w] \in {"index_read", "log_open"}}) <= 1
    /\ \A w \in Workers :
           /\ io_pc[w] = "index_read" => io_job[w].df = read_csv(master_index)
           /\ io_pc[w] = "log_open" => io_job[w].log = events

C19_Witness ==
    \E w \in Workers :
        /\ io_pc[w] = "log_open"
        /\ Len(master_index) = 2
        /\ processed = 2

(* C20: a capture that ends with status "error" is recorded and nothing more:
   no ChangeEvent is appended for it, also in monitor mode with a status=ok
   snapshot stored for its site_id. *)
C20_ErrorCaptureAppendsNoEvent ==
    \A i \in 1..Len(run_log) : run_log[i].status = "error" => ~run_log[i].logged

(* C21: for a target with a baseline whose snapshot changed, the ChangeEvent
   is appended before the index row is upserted: while the event of a capture
   is still to be appended, the index holds no row of that capture, so the
   index upsert is the last write of the target. *)
C21_IndexUpsertLast ==
    \A w \in Workers :
        io_pc[w] = "log_open" =>
            \A r \in 1..Len(master_index) :
                master_index[r] # MasterRow(io_job[w].capture)

(* C22: after a target has been processed and saved, the snapshot stored for
   its site_id is exactly the snapshot this capture produced from the target
   and the page alone, with status ok or error: no field comes from the
   snapshot stored before (an error capture stores no checksum, no signature
   and no forms even over an ok snapshot), and the snapshot loaded before the
   capture is unchanged when the event is written from it. *)
C22_SaveReplaces ==
    [][(Len(run_log') = Len(run_log) + 1 /\ last'.saved) =>
          LET sid == last'.site_id
              stored == store'[sid]
          IN  /\ stored = SnapshotFile(last'.capture)
              /\ \E outcome \in Outcomes :
                     stored.doc = _capture_target(targets[processed + 1], mode, clock',
                                                  outcome).payload
              /\ stored.doc.status = "error" =>
                     /\ stored.doc.dom_checksum = None
                     /\ stored.doc.form_signature = None
                     /\ stored.doc.form_count = 0
              /\ last'.logged =>
                     LET event == events'[Len(events')]
                         previous == store[sid].doc
                     IN  /\ event.dom_checksum_prev = Or(previous.dom_checksum, "")
                         /\ event.form_signature_prev = Or(previous.form_signature, "")
                         /\ event.resolved_url_prev = Or(previous.resolved_url, "")
      ]_vars

C22_Witness ==
    /\ last.saved
    /\ last.status = "error"
    /\ last.file_kind = "snapshot"
    /\ last.site_id \in ok_seen
    /\ store[last.site_id].doc.status = "error"
    /\ store[last.site_id].doc.dom_checksum = None

(* C23: within one run the targets are taken once each, in list order, and
   each is navigated at most once; a navigation that times out is tried
   exactly once, its target is captured with status=error, the timeout does not
   leave _capture_target, and when no other step fails the run goes on. *)
C23_NoRetry ==
    /\ Len(run_log) <= Len(targets)
    /\ \A i \in 1..Len(run_log) :
           /\ run_log[i].site_id = targets[i].site_id
           /\ run_log[i].visited \in {None, target_url(targets[i])}
           /\ run_log[i].navigations <= 1
           /\ run_log[i].result = "timeout" =>
                  /\ run_log[i].navigations = 1
                  /\ run_log[i].captured
                  /\ run_log[i].status = "error"
                  /\ run_log[i].raised \in {"none"} \cup OtherStepFailures
                  /\ (run_log[i].raised = "none" /\ i = Len(run_log)) =>
                         pc \in {"running", "done"}

C23_Witness ==
    /\ Len(run_log) = 2
    /\ run_log[1].result = "timeout"
    /\ run_log[1].navigations = 1
    /\ run_log[2].navigations = 1
    /\ run_log[2].result = "ok"
    /\ run_log[1].site_id # run_log[2].site_id
    /\ pc = "running"

(* The orders a sequence can be put in *)
Perms(seq) ==
    LET n == Len(seq)
    IN  {[i \in 1..n |-> seq[p[i]]] :
            p \in {q \in [1..n -> 1..n] : \A i, j \in 1..n : i # j => q[i] # q[j]}}

(* The value of one key of a dict replaced *)
With(obj, key, value) ==
    JObj([i \in 1..Len(obj.items) |->
             IF obj.items[i].k = key THEN Item(key, value) ELSE obj.items[i]])

(* A form with the entries of its dataset and its submitters in any order *)
FormOrders(form) ==
    {With(With(form, <<"d", "a", "t", "a", "s", "e", "t">>, JObj(d)), <<"s", "u", "b", "m", "i", "t", "t", "e", "r", "s">>, JArr(s)) :
        d \in Perms(Get(form, <<"d", "a", "t", "a", "s", "e", "t">>, JObj(<<>>)).items),
        s \in Perms(Get(form, <<"s", "u", "b", "m", "i", "t", "t", "e", "r", "s">>, JArr(<<>>)).items)}

(* A forms list with its forms, their submitters and their dataset entries in
   any order *)
Reorderings(forms) ==
    LET n == Len(forms.items)
        any == UNION {FormOrders(forms.items[i]) : i \in 1..n}
    IN  UNION {{JArr(q) : q \in {r \in [1..n -> any] :
                                    \A i \in 1..n : r[i] \in FormOrders(p[i])}} :
                  p \in Perms(forms.items)}

(* C24: for every forms list and HTML text, the forms list with its forms
   permuted, the submitters of a form permuted or the entries of a form's
   dataset permuted gets the identical {likely, signals} result. *)
C24_OrderIndependent ==
    ms_out # NoSignal =>
        \A forms \in Reorderings(ms_forms) : infer_multi_step(forms, ms_html) = ms_out

C24_Witness ==
    /\ ms_out # NoSignal
    /\ Len(ms_out.signals) >= 3
    /\ \E forms \in Reorderings(ms_forms) :
           /\ Range(collect_signals(forms, ms_html)) = Range(collect_signals(ms_forms, ms_html))
           /\ infer_multi_step_first_seen(forms, ms_html)
                  # infer_multi_step_first_seen(ms_forms, ms_html)

(* C25: detect_captcha returns true iff the lowercased HTML contains one of
   the keywords or a probe finds an element before any probe fails, and no
   exception leaves it: whatever a failing probe raises, the result is false. *)
C25_DetectCaptcha ==
    dc_out # NoVerdict =>
        /\ dc_out.raised = "none"
        /\ dc_out.value <=>
               \/ \E keyword \in keywords : Contains(lower_text(dc_html), keyword)
               \/ \E i \in 1..Len(selectors) :
                      /\ dc_page[i].count > 0
                      /\ \A j \in 1..(i - 1) : dc_page[j].raised = "none"

(* C26: when page.screenshot fails, whatever it raises, in a capture whose
   other steps succeed, the snapshot still has status=ok with dom_checksum,
   form_signature and the forms filled in. *)
C26_ScreenshotFailureTolerated ==
    \A i \in 1..Len(run_log) :
        (run_log[i].screenshot \notin {"ok", "none"} /\ run_log[i].saved) =>
            /\ run_log[i].status = "ok"
            /\ run_log[i].capture.dom_checksum # None
            /\ run_log[i].capture.form_signature # None
            /\ run_log[i].capture.form_count > 0

(* The children of an element's parent that have the element's tag name *)
SameTag(n) ==
    {m \in 1..Len(ts_tree) : /\ ts_tree[m].parent = ts_tree[n].parent
                             /\ ts_tree[m].nodeName = ts_tree[n].nodeName}

(* The part the claim expects of element n in the selector of ts_el *)
ExpectedPart(n) ==
    lower_text(ts_tree[n].nodeName)
    \o Flatten([c \in 1..Len(ts_tree[n].classList) |->
                    <<".">> \o ts_tree[n].classList[c]])
    \o (IF n # ts_el /\ Cardinality(SameTag(n)) > 1
        THEN <<":", "n", "t", "h", "-", "o", "f", "-", "t", "y", "p", "e", "(">>
             \o IntToText(Cardinality({m \in SameTag(n) : m <= n})) \o <<")">>
        ELSE <<>>)

(* The ancestors of ts_el, nearest first *)
Ancestors ==
    LET up[n \in 0..Len(ts_tree)] ==
            IF n = 0 THEN <<>> ELSE <<n>> \o up[ts_tree[n].parent]
    IN  up[ts_el]

(* C27: toSelector of an element with an id is exactly tag#id, whatever its
   ancestors; of an element without id it is the parts of the elements from
   the root down to it joined by " > ", each part the lowercased tag name and
   the classes, and the part of an ancestor carries :nth-of-type(k), k its
   position among the children of its parent with its tag name, iff its
   parent has more than one child with that tag name; a second call on the
   unchanged tree returns the same selector. *)
C27_SelectorSynthesis ==
    (ts_out # <<>> /\ ts_el # 0) =>
        LET el == ts_tree[ts_el]
            down == [k \in 1..Len(Ancestors) |-> Ancestors[Len(Ancestors) + 1 - k]]
            expected == [k \in 1..Len(down) |->
                            ExpectedPart(down[k])
                            \o (IF k < Len(down) THEN <<" ", ">", " ">> ELSE <<>>)]
        IN  /\ \A k \in 1..Len(ts_out) : ts_out[k] = ts_out[1]
            /\ ts_out[1].t = "str"
            /\ el.id # <<>> => ts_out[1].s = lower_text(el.nodeName) \o <<"#">> \o el.id
            /\ el.id = <<>> => ts_out[1].s = Flatten(expected)

C27_Witness ==
    /\ Len(ts_out) = 2
    /\ Len(ts_tree) = 4
    /\ ts_el = 4
    /\ ts_tree[4].id = <<>>
    /\ ts_tree[4].parent = 3
    /\ ts_tree[3].parent = 1
    /\ ts_tree[2].parent = 1
    /\ ts_tree[2].nodeName = ts_tree[3].nodeName
    /\ ts_tree[3].id # <<>>
    /\ Contains(ts_out[1].s, <<"f", "o", "r", "m", ":", "n", "t", "h", "-", "o", "f", "-", "t", "y", "p", "e", "(", "2", ")", " ", ">", " ", "b", "u", "t", "t", "o", "n", ".", "b", "t", "n">>)

(* C28: no step of a map run appends a ChangeEvent, whatever snapshot is
   stored and whatever the capture gives, and a target of a map run whose steps
   do not fail still has its snapshot overwritten and its index row upserted. *)
C28_MapAppendsNoEvent ==
    [][mode' = "map" =>
          /\ events' = events
          /\ (Len(run_log') = Len(run_log) + 1 /\ last'.raised = "none") =>
                 /\ last'.saved
                 /\ last'.indexed
                 /\ store'[last'.site_id] = SnapshotFile(last'.capture)
                 /\ \E r \in 1..Len(master_index') :
                        master_index'[r] = MasterRow(last'.capture)
      ]_vars

C28_Witness ==
    /\ mode = "map"
    /\ events = <<>>
    /\ last.previous_kind = "dict"
    /\ last.site_id \in ok_seen
    /\ last.status = "error"
    /\ last.indexed
    /\ store[last.site_id] = SnapshotFile(last.capture)

(* C29: in a monitor run the diff of a target is made against the snapshot
   that was stored for its site_id before the capture began, although the
   store already holds the current snapshot when the diff runs: when no step
   fails, an event is appended iff the current snapshot differs from that
   earlier one in a tracked field, and the event carries the earlier
   snapshot's values as previous and the current one's as new. *)
C29_BaselineIsPriorSnapshot ==
    [][(/\ Len(run_log') = Len(run_log) + 1
        /\ mode = "monitor"
        /\ last'.raised = "none"
        /\ store[last'.site_id].kind = "snapshot") =>
          LET baseline == store[last'.site_id].doc
              current == last'.capture
          IN  /\ store'[last'.site_id] = SnapshotFile(current)
              /\ last'.logged <=> TrackedFields(baseline) # TrackedFields(current)
              /\ last'.logged =>
                     LET event == events'[Len(events')]
                     IN  /\ Len(events') = Len(events) + 1
                         /\ event.dom_checksum_prev = Or(baseline.dom_checksum, "")
                         /\ event.dom_checksum_new = Or(current.dom_checksum, "")
                         /\ event.form_signature_prev = Or(baseline.form_signature, "")
                         /\ event.form_signature_new = Or(current.form_signature, "")
                         /\ event.resolved_url_prev = Or(baseline.resolved_url, "")
                         /\ event.resolved_url_new = Or(current.resolved_url, "")
      ]_vars

C29_Witness ==
    /\ mode = "monitor"
    /\ last.logged
    /\ last.status = "ok"
    /\ store[last.site_id] = SnapshotFile(last.capture)
    /\ events # <<>>
    /\ events[Len(events)].dom_checksum_prev # ""
    /\ events[Len(events)].dom_checksum_prev # events[Len(events)].dom_checksum_new
    /\ events[Len(events)].dom_checksum_new = last.capture.dom_checksum

(* C30: the upsert of the index row of one site_id leaves the rows of every
   other site_id as they were, in content and in relative order, and the
   processing of a target leaves the stored snapshot of every other site_id
   as it was. *)
C30_OtherSitesUntouched ==
    [][Len(run_log') = Len(run_log) + 1 =>
          LET Other(row) == row.site_id # last'.site_id
          IN  /\ SelectSeq(master_index', Other) = SelectSeq(master_index, Other)
              /\ \A s \in SiteIds \ {last'.site_id} : store'[s] = store[s]
      ]_vars

====
